---- MODULE Spec2Model ----
(***************************************************************************)
(* A model of runez: the process-execution wrapper (run, which,            *)
(* is_executable in src/src/runez/program.py), its older single-file       *)
(* form (run_program, which, abort, flatten, flattened in src/runez.py)    *)
(* and the argument flattener.                                             *)
(*                                                                         *)
(* Strings are sequences of one-character strings, so that startswith,     *)
(* split and os.path.join are computed and not assumed.  Python's None is  *)
(* the one-element sequence <<"None">>, which is no string.                *)
(***************************************************************************)
EXTENDS Integers, Sequences, FiniteSets, TLC

VARIABLES
    PATH,      \* os.environ["PATH"], a string
    cwd,       \* os.getcwd()
    files,     \* the file system: path -> "absent" | "file" | "exec"
    dryrun,    \* the process-wide dry-run flag (State.dryrun, DRYRUN)
    op,        \* the operation that was called last ("none" before any call)
    call,      \* its arguments and what the environment did during the call
    ret,       \* what it returned or raised
    events,    \* the log / abort / spawn events of the call, in order
    ps,        \* the process table as "ps -f <pid>" and tmux report it
    contexts,  \* the CaptureOutput objects that were entered and not yet left, innermost last
    tmp,       \* the folders tempfile.mkdtemp() made that still exist
    disk,      \* the files, folders and links the file operations work on: path -> node
    sys,       \* sys.stdout, sys.stderr, logging.root.handlers and what was written where
    anchors,   \* State.anchors, the list of anchor folders
    pending    \* the context objects that were made and not yet entered

vars ==
    <<PATH, cwd, files, dryrun, op, call, ret, events, ps, contexts, tmp, disk, sys, anchors,
      pending>>

----------------------------------------------------------------------------
(* Bounds of the model *)

MaxPath == 2       \* PATH has at most this many entries
MaxLen == 3        \* argument lists given to flattened() have at most this many items
MaxNest == 1       \* a nested argument list has at most this many items
MaxCode == 2       \* a child exits with a code in 0..MaxCode

----------------------------------------------------------------------------
(* Strings *)

None == <<"None">>

SLASH == "/"

startswith(s, prefix) ==
    /\ Len(prefix) <= Len(s)
    /\ SubSeq(s, 1, Len(prefix)) = prefix

endswith(s, suffix) ==
    /\ Len(suffix) <= Len(s)
    /\ SubSeq(s, Len(s) - Len(suffix) + 1, Len(s)) = suffix

RECURSIVE split_from(_, _, _, _)
split_from(s, sep, cur, acc) ==
    IF s = <<>> THEN Append(acc, cur)
    ELSE IF Head(s) = sep THEN split_from(Tail(s), sep, <<>>, Append(acc, cur))
    ELSE split_from(Tail(s), sep, Append(cur, Head(s)), acc)

\* str.split(sep) for a one-character sep: "".split(":") is [""]
split(s, sep) == split_from(s, sep, <<>>, <<>>)

RECURSIVE join_with(_, _)
\* sep.join(parts)
join_with(parts, sep) ==
    IF parts = <<>> THEN <<>>
    ELSE IF Len(parts) = 1 THEN parts[1]
    ELSE parts[1] \o <<sep>> \o join_with(Tail(parts), sep)

\* Python truthiness of a string or None
truthy(s) == s # None /\ s # <<>>

----------------------------------------------------------------------------
(* Paths and the file system *)

os_path_isabs(p) == p # <<>> /\ p[1] = SLASH

os_path_join(a, b) ==
    IF os_path_isabs(b) THEN b
    ELSE IF a = <<>> \/ endswith(a, <<SLASH>>) THEN a \o b
    ELSE a \o <<SLASH>> \o b

\* the file a path names: a relative path is taken from the working directory
os_abspath(p, wd) == IF os_path_isabs(p) THEN p ELSE os_path_join(wd, p)

os_path_isfile(p, wd, fs) ==
    /\ os_abspath(p, wd) \in DOMAIN fs
    /\ fs[os_abspath(p, wd)] # "absent"

os_access_x(p, wd, fs) ==
    /\ os_abspath(p, wd) \in DOMAIN fs
    /\ fs[os_abspath(p, wd)] = "exec"

sys_prefix == <<"/", "v">>

DirB == <<"/", "b">>
DirV == sys_prefix
DirC == <<"/", "c">>
ProgP == <<"p">>

PathEntries == {DirB, DirV, <<>>}
WorkDirs == {DirB, DirV, DirC}
FilePaths == {os_path_join(d, ProgP) : d \in WorkDirs}
FileStates == {"absent", "file", "exec"}

RECURSIVE seqs_upto(_, _)
\* the sequences over S of length 0..n
seqs_upto(S, n) ==
    IF n = 0 THEN {<<>>}
    ELSE LET shorter == seqs_upto(S, n - 1)
         IN shorter \cup {Append(q, x) : q \in {r \in shorter : Len(r) = n - 1}, x \in S}

\* the values PATH takes: 1..MaxPath entries joined by os.path.pathsep
PathStrings == {join_with(es, ":") : es \in (seqs_upto(PathEntries, MaxPath) \ {<<>>})}

Programs == {None, <<>>, ProgP} \cup FilePaths

\* program.is_executable (not WINDOWS)
is_executable(path, wd, fs) ==
    truthy(path) /\ os_path_isfile(path, wd, fs) /\ os_access_x(path, wd, fs)

----------------------------------------------------------------------------
(* which *)

RECURSIVE which_path_loop(_, _, _, _, _)
\* the loop over PATH: the first candidate that passes, None when none does
which_path_loop(entries, program, ignore_own_venv, wd, fs) ==
    IF entries = <<>> THEN None
    ELSE LET fp == os_path_join(Head(entries), program)
         IN IF /\ truthy(fp)
               /\ (~ignore_own_venv \/ ~startswith(fp, sys_prefix))
               /\ is_executable(fp, wd, fs)
            THEN fp
            ELSE which_path_loop(Tail(entries), program, ignore_own_venv, wd, fs)

\* which_relative with the working directory looked at before PATH
which_relative_mutant_cwd_first(program, ignore_own_venv, path, wd, fs) ==
    LET here == os_path_join(wd, program)
    IN IF is_executable(here, wd, fs) THEN here
       ELSE which_path_loop(split(path, ":"), program, ignore_own_venv, wd, fs)

\* program.which for a relative name
which_relative(program, ignore_own_venv, path, wd, fs) ==
    LET found == which_path_loop(split(path, ":"), program, ignore_own_venv, wd, fs)
        here == os_path_join(wd, program)
    IN IF found # None THEN found
       ELSE IF is_executable(here, wd, fs) THEN here
       ELSE None

\* which_absolute without the is_executable test
which_absolute_mutant_unchecked(program, ignore_own_venv, path, wd, fs) == program

\* program.which for an absolute path
which_absolute(program, ignore_own_venv, path, wd, fs) ==
    IF is_executable(program, wd, fs) THEN program ELSE None

\* program.which
which(program, ignore_own_venv, path, wd, fs) ==
    IF ~truthy(program) THEN None
    ELSE IF os_path_isabs(program) THEN which_absolute(program, ignore_own_venv, path, wd, fs)
    ELSE which_relative(program, ignore_own_venv, path, wd, fs)

RECURSIVE runez_which_loop(_, _, _, _, _)
runez_which_loop(entries, program, ignore_own_venv, wd, fs) ==
    IF entries = <<>> THEN None
    ELSE LET fp == os_path_join(Head(entries), program)
         IN IF (~ignore_own_venv \/ ~startswith(fp, sys_prefix)) /\ is_executable(fp, wd, fs)
            THEN fp
            ELSE runez_which_loop(Tail(entries), program, ignore_own_venv, wd, fs)

\* runez.py's which: absolute paths as above, PATH only for a relative name
runez_which(program, ignore_own_venv, path, wd, fs) ==
    IF ~truthy(program) THEN None
    ELSE IF os_path_isabs(program)
         THEN (IF is_executable(program, wd, fs) THEN program ELSE None)
    ELSE runez_which_loop(split(path, ":"), program, ignore_own_venv, wd, fs)

----------------------------------------------------------------------------
(* The environment a call finds *)

InitEnv ==
    /\ PATH \in PathStrings
    /\ cwd \in WorkDirs
    /\ files \in [FilePaths -> FileStates]
    /\ dryrun \in BOOLEAN

InitCall ==
    /\ op = "none"
    /\ call = <<>>
    /\ ret = <<>>
    /\ events = <<>>

\* the parts of the state that the calls of a specification neither read nor write
NoProcesses == ps = [table |-> <<>>, client |-> 0]

NoContexts == contexts = <<>>

NoTmp == tmp = {}

NoDisk == disk = <<>>

NoStreams == sys = <<>>

NoAnchors == anchors = <<>>

NoPending == pending = <<>>

InitOthers == NoProcesses /\ NoContexts /\ NoTmp /\ NoDisk /\ NoStreams /\ NoAnchors /\ NoPending

UnchangedEnv ==
    UNCHANGED <<PATH, cwd, files, dryrun, ps, contexts, tmp, disk, sys, anchors, pending>>

\* no call is in progress: the caller may make the next one
Idle == op = "none"

\* the caller has looked at the outcome of the last call and goes on
Return ==
    /\ ~Idle
    /\ op = "parent_list" => ret.current = <<>>
    /\ op' = "none"
    /\ call' = <<>>
    /\ ret' = <<>>
    /\ events' = <<>>
    /\ UnchangedEnv

----------------------------------------------------------------------------
(* SpecWhich: calls of which() in every environment *)

Which ==
    /\ Idle
    /\ \E program \in Programs, ignore_own_venv \in BOOLEAN :
        /\ op' = "which"
        /\ call' = [program |-> program, ignore_own_venv |-> ignore_own_venv]
        /\ ret' = which(program, ignore_own_venv, PATH, cwd, files)
        /\ events' = <<>>
        /\ UnchangedEnv

RunezWhich ==
    /\ Idle
    /\ \E program \in Programs, ignore_own_venv \in BOOLEAN :
        /\ op' = "runez_which"
        /\ call' = [program |-> program, ignore_own_venv |-> ignore_own_venv]
        /\ ret' = runez_which(program, ignore_own_venv, PATH, cwd, files)
        /\ events' = <<>>
        /\ UnchangedEnv

InitWhich == InitEnv /\ dryrun = FALSE /\ InitCall /\ InitOthers

NextWhich == Which \/ RunezWhich \/ Return

SpecWhich == InitWhich /\ [][NextWhich]_vars

----------------------------------------------------------------------------
(* Argument values: None, strings, integers and (nested) lists *)

VNone == [t |-> "none", s |-> <<>>, n |-> 0, l |-> <<>>]
VStr(x) == [t |-> "str", s |-> x, n |-> 0, l |-> <<>>]
VInt(i) == [t |-> "int", s |-> <<>>, n |-> i, l |-> <<>>]
VList(items) == [t |-> "list", s |-> <<>>, n |-> 0, l |-> items]

\* Python's "not value"
falsy(v) ==
    \/ v.t = "none"
    \/ v.t = "str" /\ v.s = <<>>
    \/ v.t = "int" /\ v.n = 0
    \/ v.t = "list" /\ v.l = <<>>

\* "separator in value" for a one-character separator
contains(str, sep) == \E i \in 1..Len(str) : <<str[i]>> = sep

\* "value in result"
in_list(v, r) == \E i \in 1..Len(r) : r[i] = v

Ok(r) == [err |-> FALSE, r |-> r]
AttributeError(r) == [err |-> TRUE, r |-> r]

\* runez.flatten, the falsy branch: a None drops the flag before it when not unique;
\* result[-1].startswith raises AttributeError when result[-1] is an integer
flatten_none(result, value, unique) ==
    IF value.t = "none" /\ ~unique /\ result.r # <<>>
    THEN LET last == result.r[Len(result.r)]
         IN IF last.t # "str" THEN AttributeError(result.r)
            ELSE IF startswith(last.s, <<"-">>)
                 THEN Ok(SubSeq(result.r, 1, Len(result.r) - 1))
            ELSE result
    ELSE result

\* flatten_append with "and" for "or"
flatten_append_mutant_and(result, value, unique) ==
    IF ~unique /\ ~in_list(value, result.r) THEN Ok(Append(result.r, value)) ELSE result

\* runez.flatten, the last step: append unless unique and already there
flatten_append(result, value, unique) ==
    IF ~unique \/ ~in_list(value, result.r) THEN Ok(Append(result.r, value)) ELSE result

RECURSIVE flatten(_, _, _, _)
RECURSIVE flatten_items(_, _, _, _)

\* runez.flatten; result is the list so far, or the exception that ended the call
flatten(result, value, separator, unique) ==
    IF result.err THEN result
    ELSE IF falsy(value) THEN flatten_none(result, value, unique)
    ELSE IF value.t = "list" THEN flatten_items(result, value.l, separator, unique)
    ELSE IF separator # None /\ value.t = "str" /\ contains(value.s, separator)
         THEN LET parts == split(value.s, separator[1])
              IN flatten_items(result, [i \in 1..Len(parts) |-> VStr(parts[i])], separator, unique)
    ELSE flatten_append(result, value, unique)

\* "for item in value: flatten(result, item, ...)"
flatten_items(result, items, separator, unique) ==
    IF items = <<>> THEN result
    ELSE flatten_items(flatten(result, Head(items), separator, unique), Tail(items), separator, unique)

\* runez.flattened
flattened(value, separator, unique) == flatten(Ok(<<>>), value, separator, unique)

FlagA == <<"-", "a">>
StrX == <<"x">>
StrXX == <<"x", ",", "x">>

Atoms == {VNone, VStr(FlagA), VStr(StrX), VStr(<<>>), VStr(StrXX), VInt(0), VInt(1)}
NestedAtoms == {VNone, VStr(FlagA)}
Items == Atoms \cup {VList(q) : q \in seqs_upto(NestedAtoms, MaxNest)}
ArgLists == {VList(q) : q \in seqs_upto(Items, MaxLen)}
Separators == {None, <<",">>}

----------------------------------------------------------------------------
(* SpecFlatten: flattened() applied to every argument list of the bounds *)

Flattened ==
    /\ Idle
    /\ \E value \in ArgLists, separator \in Separators, unique \in BOOLEAN :
        /\ op' = "flattened"
        /\ call' = [value |-> value, separator |-> separator, unique |-> unique]
        /\ ret' = flattened(value, separator, unique)
        /\ events' = <<>>
        /\ UnchangedEnv

\* flattened() applied to the list a call of flattened() returned
FlattenedAgain ==
    /\ op = "flattened"
    /\ ~ret.err
    /\ op' = "flattened_again"
    /\ call' = [value |-> VList(ret.r), separator |-> call.separator, unique |-> call.unique]
    /\ ret' = flattened(VList(ret.r), call.separator, call.unique)
    /\ events' = <<>>
    /\ UnchangedEnv

InitFlatten ==
    /\ PATH = DirB
    /\ cwd = DirC
    /\ files = [f \in FilePaths |-> "absent"]
    /\ dryrun = FALSE
    /\ InitCall
    /\ InitOthers

NextFlatten == Flattened \/ FlattenedAgain \/ Return

SpecFlatten == InitFlatten /\ [][NextFlatten]_vars

----------------------------------------------------------------------------
(* Outcomes and events of a call of run() or run_program() *)

Returned(t, n) == [kind |-> "return", t |-> t, n |-> n]
Raised(t, n) == [kind |-> "raise", t |-> t, n |-> n]

Event(e, msg, fatal, code) == [e |-> e, msg |-> msg, fatal |-> fatal, code |-> code]
Logged(level, msg) == Event(level, msg, "", 0)

Outcome(evs, r) == [events |-> evs, ret |-> r]
After(evs, outcome) == Outcome(evs \o outcome.events, outcome.ret)

\* what the operating system does with the child: Popen or communicate raises OSError, or
\* the child runs and exits with returncode, having written to stderr or not
ChildOutcomes ==
    {[popen |-> "OSError", communicate |-> "", returncode |-> 0, err |-> FALSE],
     [popen |-> "ok", communicate |-> "OSError", returncode |-> 0, err |-> FALSE]}
    \cup {[popen |-> "ok", communicate |-> "ok", returncode |-> c, err |-> e] :
            c \in 0..MaxCode, e \in BOOLEAN}

NoChild == [popen |-> "", communicate |-> "", returncode |-> 0, err |-> FALSE]

\* runez.system.abort as run()'s docstring and test_abort describe it: the message is logged
\* unless fatal is None, fatal=True raises AbortException(code), otherwise fatal is returned
system_abort(msg, fatal, code) ==
    Outcome(<<Event("abort", msg, fatal, code)>>
              \o (IF fatal # "None" THEN <<Logged("error", msg)>> ELSE <<>>),
            IF fatal = "True" THEN Raised("AbortException", code) ELSE Returned(fatal, 0))

\* runez.py: State, as the module sets it
DefaultState == [output |-> TRUE, testing |-> FALSE, logging |-> FALSE]

\* runez.py: warning() and error() log when State.logging and print when State.output or
\* State.testing
warning(msg, state) ==
    (IF state.logging THEN <<Logged("LOG.warning", msg)>> ELSE <<>>)
      \o (IF state.output \/ state.testing THEN <<Logged("print WARNING", msg)>> ELSE <<>>)

error(msg, state) ==
    (IF state.logging THEN <<Logged("LOG.error", msg)>> ELSE <<>>)
      \o (IF state.output \/ state.testing THEN <<Logged("print ERROR", msg)>> ELSE <<>>)

\* "if fatal:" for the values callers give: a (fatal, value) pair is a non-empty tuple
if_fatal(fatal) == fatal \notin {"False", "None"}

\* abort that exits before it reports
abort_mutant_exit_first(msg, code, logger, fatal, quiet, return_value, state) ==
    IF if_fatal(fatal)
    THEN Outcome(<<Event("abort", msg, fatal, code), Event("sys.exit", "", "", code)>>,
                 Raised("SystemExit", code))
    ELSE Outcome(<<Event("abort", msg, fatal, code)>>
                   \o (IF ~quiet /\ msg # "" THEN error(msg, state) ELSE <<>>), return_value)

\* runez.py: abort(msg, code=code, logger=logger, fatal=fatal, quiet=quiet,
\* return_value=return_value); msg is "" when abort is given no positional argument
abort(msg, code, logger, fatal, quiet, return_value, state) ==
    Outcome(<<Event("abort", msg, fatal, code)>>
              \o (IF ~quiet /\ msg # ""
                  THEN IF code = 0
                       THEN (IF logger = "warning" THEN warning(msg, state)
                             ELSE <<Logged(logger, msg)>>)
                       ELSE error(msg, state)
                  ELSE <<>>)
              \o (IF if_fatal(fatal) THEN <<Event("sys.exit", "", "", code)>> ELSE <<>>),
            IF if_fatal(fatal) THEN Raised("SystemExit", code) ELSE return_value)

\* "return output and output.strip()": output is None when stdout was not piped
captured_output(stdout, stderr, include_error, child) ==
    IF include_error /\ stderr = "PIPE" /\ child.err THEN Returned("output+err", 0)
    ELSE IF stdout = "PIPE" THEN Returned("output", 0)
    ELSE Returned("None", 0)

----------------------------------------------------------------------------
(* program.run *)

\* run_dryrun returning the message whatever stdout and stderr are, as run_program does
run_dryrun_mutant_message(stdout, stderr) == Outcome(<<>>, Returned("message", 0))

\* run, "if dryrun:"
run_dryrun(stdout, stderr) ==
    Outcome(<<>>, IF stdout = "None" /\ stderr = "None" THEN Returned("int", 0)
                  ELSE Returned("message", 0))

\* run_not_installed that does not pass the caller's fatal on
run_not_installed_mutant_fatal(fatal) == system_abort("is not installed", "True", 1)

\* run, "if not full_path:"
run_not_installed(fatal) == system_abort("is not installed", fatal, 1)

\* run_exited as run_program has it: one test for both modes, and no code= given to abort
run_exited_mutant_code_lost(fatal, stdout, stderr, include_error, child) ==
    IF child.returncode # 0 /\ fatal # "None"
    THEN system_abort("exited with code", fatal, 1)
    ELSE IF stdout = "None" /\ stderr = "None" THEN Outcome(<<>>, Returned("int", child.returncode))
    ELSE Outcome(<<>>, captured_output(stdout, stderr, include_error, child))

\* run, after communicate() returned
run_exited(fatal, stdout, stderr, include_error, child) ==
    IF stdout = "None" /\ stderr = "None"
    THEN IF child.returncode # 0 /\ fatal = "True"
         THEN system_abort("exited with code", fatal, child.returncode)
         ELSE Outcome(<<>>, Returned("int", child.returncode))
    ELSE IF child.returncode # 0 /\ fatal # "None"
         THEN system_abort("exited with code", fatal, child.returncode)
    ELSE Outcome(<<>>, captured_output(stdout, stderr, include_error, child))

\* a try block whose "except Exception" has no test for the abort exception: the abort of
\* a non-zero exit is caught and reported again
run_spawn_mutant_catches_abort(fatal, stdout, stderr, include_error, child) ==
    LET exited == run_exited(fatal, stdout, stderr, include_error, child)
        spawned == <<Event("Popen", "spawned", "", 0),
                     Event("communicate", "exited", "", child.returncode)>>
    IN IF child.popen = "OSError" \/ child.communicate = "OSError"
       THEN After(<<Event("Popen", "raised", "", 0)>>, system_abort("failed", fatal, 1))
       ELSE IF exited.ret.kind = "raise"
            THEN After(spawned \o exited.events, system_abort("failed", fatal, 1))
       ELSE After(spawned, exited)
\* run, the try block: an AbortException passes through, any other exception becomes an abort
run_spawn(fatal, stdout, stderr, include_error, child) ==
    IF child.popen = "OSError"
    THEN After(<<Event("Popen", "raised", "", 0)>>, system_abort("failed", fatal, 1))
    ELSE IF child.communicate = "OSError"
         THEN After(<<Event("Popen", "spawned", "", 0), Event("communicate", "raised", "", 0)>>,
                    system_abort("failed", fatal, 1))
    ELSE After(<<Event("Popen", "spawned", "", 0), Event("communicate", "exited", "", child.returncode)>>,
               run_exited(fatal, stdout, stderr, include_error, child))

\* run_steps with the full_path test before the dryrun test
run_steps_mutant_installed_first(is_dryrun, full_path, fatal, stdout, stderr, include_error, child) ==
    IF ~truthy(full_path) THEN run_not_installed(fatal)
    ELSE IF is_dryrun THEN run_dryrun(stdout, stderr)
    ELSE run_spawn(fatal, stdout, stderr, include_error, child)

\* run, from "if dryrun:" on
run_steps(is_dryrun, full_path, fatal, stdout, stderr, include_error, child) ==
    IF is_dryrun THEN run_dryrun(stdout, stderr)
    ELSE IF ~truthy(full_path) THEN run_not_installed(fatal)
    ELSE run_spawn(fatal, stdout, stderr, include_error, child)

\* kwargs.pop("fatal", True) and kwargs.pop("dryrun", <the dry-run flag>)
kw_fatal(c) == IF c.fatal = "unset" THEN "True" ELSE c.fatal
kw_dryrun(c, flag) == IF c.dryrun = "unset" THEN flag ELSE c.dryrun = "True"

\* a run that calls the logger when the work is done, whatever was asked for
run_mutant_logs_last(c, flag, path, wd, fs) ==
    LET full_path == which(c.program, FALSE, path, wd, fs)
        done == run_steps(kw_dryrun(c, flag), full_path, kw_fatal(c), c.stdout, c.stderr,
                          c.include_error, c.child)
    IN Outcome(done.events \o <<Logged("logger", "Running")>>, done.ret)
\* program.run (PYCHARM_HOSTED not set: _WrappedArgs hands the arguments through)
run(c, flag, path, wd, fs) ==
    LET full_path == which(c.program, FALSE, path, wd, fs)
        message == IF kw_dryrun(c, flag) THEN "Would run" ELSE "Running"
    IN After(IF c.logger # "None" THEN <<Logged("logger", message)>> ELSE <<>>,
             run_steps(kw_dryrun(c, flag), full_path, kw_fatal(c), c.stdout, c.stderr,
                       c.include_error, c.child))

----------------------------------------------------------------------------
(* runez.py: run_program *)

\* run_program, the try block: sys.exit() raises SystemExit, which "except Exception" lets pass
run_program_spawn(fatal, quiet, stdout, stderr, include_error, child) ==
    IF child.popen = "OSError"
    THEN After(<<Event("Popen", "raised", "", 0)>>,
               abort("failed", 1, "warning", fatal, quiet, Returned("None", 0), DefaultState))
    ELSE IF child.communicate = "OSError"
         THEN After(<<Event("Popen", "spawned", "", 0), Event("communicate", "raised", "", 0)>>,
                    abort("failed", 1, "warning", fatal, quiet, Returned("None", 0), DefaultState))
    ELSE After(<<Event("Popen", "spawned", "", 0), Event("communicate", "exited", "", child.returncode)>>,
               IF child.returncode # 0 /\ fatal # "None"
               THEN abort("exited with code", 1, "warning", fatal, quiet, Returned("None", 0), DefaultState)
               ELSE Outcome(<<>>, captured_output(stdout, stderr, include_error, child)))

\* runez.py: run_program
run_program(c, flag, path, wd, fs) ==
    LET full_path == runez_which(c.program, FALSE, path, wd, fs)
        message == IF kw_dryrun(c, flag) THEN "Would run" ELSE "Running"
    IN After(IF ~c.quiet THEN <<Logged("logger", message)>> ELSE <<>>,
             IF kw_dryrun(c, flag) THEN Outcome(<<>>, Returned("message", 0))
             ELSE IF ~truthy(full_path)
                  THEN abort("is not installed", 1, "warning", kw_fatal(c), c.quiet,
                             Returned("None", 0), DefaultState)
             ELSE run_program_spawn(kw_fatal(c), c.quiet, c.stdout, c.stderr, c.include_error, c.child))

----------------------------------------------------------------------------
(* Spec: calls of run() and run_program() *)

RunPrograms == {ProgP, os_path_join(DirB, ProgP)}
KwFatal == {"unset", "True", "False", "None"}
KwDryrun == {"unset", "True", "False"}
Streams == {"PIPE", "None"}

HasEvent(evs, e) == \E i \in 1..Len(evs) : evs[i].e = e

\* the record of a call: what the environment did is part of it only if a child was spawned
Called(c, outcome) ==
    [c EXCEPT !.child = IF HasEvent(outcome.events, "Popen") THEN c.child ELSE NoChild]

Run ==
    /\ Idle
    /\ \E c \in [program : RunPrograms, fatal : KwFatal, dryrun : KwDryrun, stdout : Streams,
              stderr : Streams, logger : {"unset", "None"}, include_error : BOOLEAN,
              child : ChildOutcomes] :
        LET outcome == run(c, dryrun, PATH, cwd, files)
        IN /\ op' = "run"
           /\ call' = Called(c, outcome)
           /\ ret' = outcome.ret
           /\ events' = outcome.events
           /\ UnchangedEnv

RunProgram ==
    /\ Idle
    /\ \E c \in [program : RunPrograms, fatal : KwFatal, dryrun : KwDryrun, stdout : Streams,
              stderr : Streams, quiet : BOOLEAN, include_error : BOOLEAN,
              child : ChildOutcomes] :
        LET outcome == run_program(c, dryrun, PATH, cwd, files)
        IN /\ op' = "run_program"
           /\ call' = Called(c, outcome)
           /\ ret' = outcome.ret
           /\ events' = outcome.events
           /\ UnchangedEnv

Init ==
    /\ PATH = DirB
    /\ cwd = DirC
    /\ files \in {fs \in [FilePaths -> FileStates] :
                    \A f \in FilePaths : f # os_path_join(DirB, ProgP) => fs[f] = "absent"}
    /\ dryrun \in BOOLEAN
    /\ InitCall
    /\ InitOthers

Next == Run \/ RunProgram \/ Return

Spec == Init /\ [][Next]_vars

----------------------------------------------------------------------------
(* Claims about run() *)

IsRun == op \in {"run", "run_program"}

DryRunInEffect == kw_dryrun(call, dryrun)
Fatal == kw_fatal(call)
Suppressed == call.stdout = "None" /\ call.stderr = "None"

\* the program does not resolve to an executable
NotInstalled ==
    IF op = "run" THEN which(call.program, FALSE, PATH, cwd, files) = None
    ELSE runez_which(call.program, FALSE, PATH, cwd, files) = None

Aborts == SelectSeq(events, LAMBDA ev : ev.e = "abort")

ExitedNonZero == call.child.communicate = "ok" /\ call.child.returncode # 0
SpawnRaised == call.child.popen = "OSError" \/ call.child.communicate = "OSError"

C2_NotInstalledAborts ==
    (IsRun /\ ~DryRunInEffect /\ NotInstalled) =>
        /\ Aborts = <<Event("abort", "is not installed", Fatal, 1)>>
        /\ ~HasEvent(events, "Popen")

C2_Witness ==
    /\ op = "run"
    /\ ~DryRunInEffect
    /\ NotInstalled
    /\ Fatal = "False"
    /\ Aborts # <<>>
    /\ ret.kind = "return"

\* C3: when the child run() spawned exits with a non-zero code and fatal is True (the
\* default), run() aborts with that code and does not return, with captured streams and
\* with suppressed streams alike
C3_NonZeroExitAborts ==
    (op = "run" /\ ExitedNonZero /\ Fatal = "True") =>
        /\ Aborts = <<Event("abort", "exited with code", "True", call.child.returncode)>>
        /\ ret = Raised("AbortException", call.child.returncode)

C3_Witness ==
    /\ op = "run"
    /\ call.fatal = "unset"
    /\ Suppressed
    /\ call.child.communicate = "ok"
    /\ call.child.returncode = MaxCode
    /\ ret.kind = "raise"

C5_FailureFollowsFatal ==
    (op = "run" /\ ~DryRunInEffect /\ (NotInstalled \/ SpawnRaised \/ ExitedNonZero)) =>
        /\ Fatal = "None" => ret = Returned("None", 0)
        /\ Fatal = "False" => ret = Returned("False", 0)
        /\ Fatal = "True" => /\ ret.kind = "raise"
                             /\ ret.t = "AbortException"
                             /\ ExitedNonZero => ret.n = call.child.returncode

\* C17 (as claimed): run(fatal=None, stdout=None, stderr=None) does not wait for the child
\* it spawned: it returns right after the spawn, a result with exit code None and the pid
C17_NoWaitReturnsAfterSpawn ==
    (/\ op = "run"
     /\ call.fatal = "None"
     /\ Suppressed
     /\ call.child.popen = "ok")
    => /\ ~HasEvent(events, "communicate")
       /\ ret = Returned("RunResult(exit_code=None, pid)", 0)

LoggerCalls == SelectSeq(events, LAMBDA ev : ev.e = "logger")

----------------------------------------------------------------------------
(* Claims about flattened() *)

RECURSIVE leaves(_)
\* the leaves of a nested argument list, in order
leaves(items) ==
    IF items = <<>> THEN <<>>
    ELSE IF Head(items).t = "list" THEN leaves(Head(items).l) \o leaves(Tail(items))
    ELSE <<Head(items)>> \o leaves(Tail(items))

IsFlag(v) == v.t = "str" /\ startswith(v.s, <<"-">>)

FlagBeforeNone(ls, i) == i < Len(ls) /\ IsFlag(ls[i]) /\ ls[i + 1].t = "none"

RECURSIVE keep_from(_, _)
\* ls without its None values and without the flags a None follows, from index i on
keep_from(ls, i) ==
    IF i > Len(ls) THEN <<>>
    ELSE IF ls[i].t = "none" \/ FlagBeforeNone(ls, i) THEN keep_from(ls, i + 1)
    ELSE <<ls[i]>> \o keep_from(ls, i + 1)

FlatStrings(value) == \A i \in 1..Len(value.l) : value.l[i].t = "str"

Distinct(r) == \A i, j \in 1..Len(r) : r[i] = r[j] => i = j

\* C6 (as claimed): when a None follows a flag in the argument list, flattened(unique=False)
\* returns the list without its None values and without that flag, everything else kept in order
C6_NoneAndFlagRemovedOnly ==
    (/\ op = "flattened"
     /\ ~call.unique
     /\ call.separator = None
     /\ \E i \in 1..Len(leaves(call.value.l)) : FlagBeforeNone(leaves(call.value.l), i))
    => ret = Ok(keep_from(leaves(call.value.l), 1))

\* C7 (as claimed): under the default settings flattened() returns every flat list of
\* strings unchanged, lists with repeated or empty strings included
C7_FlatStringsUnchanged ==
    (/\ op = "flattened"
     /\ call.unique
     /\ call.separator = None
     /\ FlatStrings(call.value))
    => ret = Ok(call.value.l)

RECURSIVE first_non_empty(_, _)
\* the non-empty strings of items, each kept where it comes first
first_non_empty(items, kept) ==
    IF items = <<>> THEN kept
    ELSE IF Head(items).s = <<>> \/ \E i \in 1..Len(kept) : kept[i] = Head(items)
         THEN first_non_empty(Tail(items), kept)
    ELSE first_non_empty(Tail(items), Append(kept, Head(items)))

\* C7 (amended): under the default settings flattened() returns a flat list of distinct,
\* non-empty strings unchanged (of any flat list of strings it keeps the non-empty ones,
\* each once); and flattening the list flattened() returned returns that list again
C7_DistinctNonEmptyUnchanged ==
    /\ (/\ op = "flattened"
        /\ call.unique
        /\ call.separator = None
        /\ FlatStrings(call.value))
       => /\ ret = Ok(first_non_empty(call.value.l, <<>>))
          /\ (/\ Distinct(call.value.l)
              /\ \A i \in 1..Len(call.value.l) : call.value.l[i].s # <<>>)
             => ret = Ok(call.value.l)
    /\ op = "flattened_again" => ret = Ok(call.value.l)

C7_Witness ==
    /\ op = "flattened_again"
    /\ call.unique
    /\ call.separator = None
    /\ FlatStrings(call.value)
    /\ Len(call.value.l) >= 2
    /\ ret = Ok(call.value.l)

----------------------------------------------------------------------------
(* Claims about which() *)

IsWhich == op \in {"which", "runez_which"}

RelativeName(p) == truthy(p) /\ ~os_path_isabs(p)

ExecutableFile(p) == p \in DOMAIN files /\ files[p] = "exec"

\* the call repeated with another PATH and working directory
which_elsewhere(path, wd) ==
    IF op = "which" THEN which(call.program, call.ignore_own_venv, path, wd, files)
    ELSE runez_which(call.program, call.ignore_own_venv, path, wd, files)

\* C8: which(None) and which("") are None; which(absolute path) is that path when it is an
\* executable file and None otherwise, whatever PATH and the working directory are
C8_WhichAbsolute ==
    IsWhich =>
        /\ ~truthy(call.program) => ret = None
        /\ (truthy(call.program) /\ os_path_isabs(call.program)) =>
              /\ ret = IF ExecutableFile(call.program) THEN call.program ELSE None
              /\ \A path \in PathStrings, wd \in WorkDirs : which_elsewhere(path, wd) = ret

C8_Witness ==
    /\ op = "which"
    /\ os_path_isabs(call.program)
    /\ ret = call.program
    /\ which_relative(ProgP, FALSE, PATH, cwd, files) \notin {None, call.program}

\* the candidate which() builds from PATH entry i, and whether it may return it
Candidate(i) == os_path_join(split(PATH, ":")[i], call.program)
Holds(i) ==
    /\ ExecutableFile(os_abspath(Candidate(i), cwd))
    /\ ~call.ignore_own_venv \/ ~startswith(Candidate(i), sys_prefix)
Matches == {i \in 1..Len(split(PATH, ":")) : Holds(i)}
InCwd == os_path_join(cwd, call.program)

C10_NeverInsideOwnVenv ==
    (op = "which" /\ RelativeName(call.program) /\ call.ignore_own_venv /\ ret # None)
    => ~startswith(ret, sys_prefix)

----------------------------------------------------------------------------
(* PsInfo, the process inspector.  Its code is not among the sources: it is modelled from *)
(* the specification (sections 3, 4.4 and 8) and from test_ps and test_ps_follow.          *)
(* An optional value is a sequence: <<>> is None and <<v>> is v.                          *)

MaxPid == 2        \* the process table has the pids 1..MaxPid

Pids == 1..MaxPid

\* os.getpid()
os_getpid == 1

\* a row of "ps -f": the PID is the index of the row
Row(ppid, cmd) == [PPID |-> ppid, UID |-> 0, CMD |-> cmd]

Rows == {Row(ppid, cmd) : ppid \in 0..MaxPid, cmd \in {"init", "tmux"}}

\* what ps reports for every pid (<<>>: ps fails) and the client pid tmux reports
ProcessTables == [table : [Pids -> {<<>>} \cup {<<r>> : r \in Rows}], client : 0..MaxPid]

PidArgs == {VNone} \cup {VInt(i) : i \in (-1)..MaxPid}

\* to_int(pid)
to_int(v) == IF v.t = "int" THEN <<v.n>> ELSE <<>>

\* run("ps", "-f", pid, fatal=False): the parsed row, if the call succeeded
ps_f(pid, t) == IF pid \in DOMAIN t.table THEN t.table[pid] ELSE <<>>

\* PsInfo(pid): no pid, or pid 0, is the current process; seen holds the pids of the
\* processes the walk came through
PsInfo(pid, seen, t) ==
    LET given == to_int(pid)
        own == IF given = <<>> \/ given[1] = 0 THEN os_getpid ELSE given[1]
    IN [pid |-> own, info |-> ps_f(own, t), seen |-> seen]

\* from_pid that does not look at info
from_pid_mutant_no_info_check(pid, seen, t) ==
    IF to_int(pid) = <<>> \/ to_int(pid)[1] = 0 THEN <<>> ELSE <<PsInfo(pid, seen, t)>>

\* PsInfo.from_pid: None unless ps has an entry for pid
from_pid(pid, seen, t) ==
    IF to_int(pid) = <<>> \/ to_int(pid)[1] = 0 THEN <<>>
    ELSE IF PsInfo(pid, seen, t).info # <<>> THEN <<PsInfo(pid, seen, t)>>
    ELSE <<>>

\* the accessors: None when there is no info
ps_cmd(p) == IF p.info = <<>> THEN <<>> ELSE <<p.info[1].CMD>>
ps_cmd_basename(p) == ps_cmd(p)
ps_ppid(p) == IF p.info = <<>> THEN <<>> ELSE <<p.info[1].PPID>>
ps_uid(p) == IF p.info = <<>> THEN <<>> ELSE <<p.info[1].UID>>
ps_userid(p) == IF p.info = <<>> THEN <<>> ELSE <<"root">>

\* parent without the protection against cycles
parent_mutant_unprotected(p, t) ==
    IF ps_ppid(p) = <<>> THEN <<>> ELSE from_pid(VInt(ps_ppid(p)[1]), p.seen \cup {p.pid}, t)

\* PsInfo.parent: the process of the raw PPID, None when the walk came through it already
parent(p, t) ==
    IF ps_ppid(p) = <<>> THEN <<>>
    ELSE IF ps_ppid(p)[1] \in p.seen \cup {p.pid} THEN <<>>
    ELSE from_pid(VInt(ps_ppid(p)[1]), p.seen \cup {p.pid}, t)

\* PsInfo.followed_parent: a tmux parent is followed to the client that started the session
followed_parent(p, t) ==
    IF parent(p, t) # <<>> /\ ps_cmd_basename(parent(p, t)[1]) = <<"tmux">>
    THEN IF t.client \in p.seen \cup {p.pid} THEN <<>>
         ELSE from_pid(VInt(t.client), p.seen \cup {p.pid}, t)
    ELSE parent(p, t)

----------------------------------------------------------------------------
(* SpecPs: PsInfo on every process table of the bounds *)

FromPid ==
    /\ Idle
    /\ \E pid \in PidArgs :
        /\ op' = "from_pid"
        /\ call' = [pid |-> pid]
        /\ ret' = from_pid(pid, {}, ps)
        /\ events' = <<>>
        /\ UnchangedEnv

\* PsInfo(pid) and a read of each of its properties
NewPsInfo ==
    /\ Idle
    /\ \E pid \in PidArgs :
        LET p == PsInfo(pid, {}, ps)
        IN /\ op' = "PsInfo"
           /\ call' = [pid |-> pid]
           /\ ret' = [pid |-> p.pid, info |-> p.info, cmd |-> ps_cmd(p),
                      cmd_basename |-> ps_cmd_basename(p), ppid |-> ps_ppid(p),
                      uid |-> ps_uid(p), userid |-> ps_userid(p),
                      parent |-> parent(p, ps), followed_parent |-> followed_parent(p, ps)]
           /\ events' = <<>>
           /\ UnchangedEnv

\* PsInfo(pid).parent_list(follow): "result = []; current = self"
ParentList ==
    /\ Idle
    /\ \E pid \in PidArgs, follow \in BOOLEAN :
        /\ op' = "parent_list"
        /\ call' = [pid |-> pid, follow |-> follow]
        /\ ret' = [current |-> <<PsInfo(pid, {}, ps)>>, result |-> <<>>]
        /\ events' = <<>>
        /\ UnchangedEnv

\* one hop of the walk: the (followed) parent of current becomes current
ParentListStep ==
    /\ op = "parent_list"
    /\ ret.current # <<>>
    /\ LET up == IF call.follow THEN followed_parent(ret.current[1], ps)
                 ELSE parent(ret.current[1], ps)
       IN /\ ret' = [current |-> up,
                     result |-> IF up # <<>> THEN Append(ret.result, up[1].pid) ELSE ret.result]
          /\ events' = Append(events, Event("hop", "", "", IF up # <<>> THEN up[1].pid ELSE 0))
    /\ UNCHANGED <<op, call>>
    /\ UnchangedEnv

InitPs ==
    /\ PATH = DirB
    /\ cwd = DirC
    /\ files = [f \in FilePaths |-> "absent"]
    /\ dryrun = FALSE
    /\ InitCall
    /\ ps \in ProcessTables
    /\ NoContexts
    /\ NoTmp /\ NoStreams /\ NoAnchors /\ NoPending
    /\ NoDisk

NextPs == FromPid \/ NewPsInfo \/ ParentList \/ ParentListStep \/ Return

SpecPs == InitPs /\ [][NextPs]_vars

----------------------------------------------------------------------------
(* Claims about PsInfo *)

\* the pid PsInfo(pid) is about
OwnPid(pid) == PsInfo(pid, {}, ps).pid

\* pid has no entry in the process table
NoEntry(pid) == to_int(pid) = <<>> \/ to_int(pid)[1] = 0 \/ ps_f(to_int(pid)[1], ps) = <<>>

\* the ps call PsInfo(pid) makes fails
PsFails(pid) == ps_f(OwnPid(pid), ps) = <<>>

\* C11: on every process table, those with a cycle of PPID links or a process that is its
\* own parent included, the walk up the parents (followed or not) takes at most MaxPid hops,
\* never comes to a process twice, and after MaxPid hops it has ended with None
C11_ParentWalkBounded ==
    op = "parent_list" =>
        /\ Len(events) <= MaxPid
        /\ Len(events) = MaxPid => ret.current = <<>>
        /\ Distinct(<<OwnPid(call.pid)>> \o ret.result)

C11_Witness ==
    /\ op = "parent_list"
    /\ ~call.follow
    /\ ps.table[1] # <<>> /\ ps.table[1][1].PPID = 2
    /\ ps.table[2] # <<>> /\ ps.table[2][1].PPID = 1
    /\ ret.current = <<>>
    /\ Len(ret.result) = 1

\* C12 (as claimed): from_pid is None for None, 0 and a pid ps has no entry for, and every
\* property of a PsInfo built on such a pid is None
C12_NoEntryAllNone ==
    /\ (op = "from_pid" /\ NoEntry(call.pid)) => ret = <<>>
    /\ (op = "PsInfo" /\ NoEntry(call.pid)) =>
          /\ ret.info = <<>> /\ ret.cmd = <<>> /\ ret.cmd_basename = <<>>
          /\ ret.ppid = <<>> /\ ret.uid = <<>> /\ ret.userid = <<>>
          /\ ret.parent = <<>> /\ ret.followed_parent = <<>>

\* C12 (amended): from_pid is None for None, 0 and a pid ps has no entry for; every property
\* of a PsInfo whose ps call fails is None and its parent_list is empty, followed or not
\* (PsInfo(None) and PsInfo(0) are the current process, whose ps call need not fail)
C12_FailedPsAllNone ==
    /\ (op = "from_pid" /\ NoEntry(call.pid)) => ret = <<>>
    /\ (op = "PsInfo" /\ PsFails(call.pid)) =>
          /\ ret.info = <<>> /\ ret.cmd = <<>> /\ ret.cmd_basename = <<>>
          /\ ret.ppid = <<>> /\ ret.uid = <<>> /\ ret.userid = <<>>
          /\ ret.parent = <<>> /\ ret.followed_parent = <<>>
    /\ (op = "parent_list" /\ PsFails(call.pid)) =>
          /\ ret.result = <<>>
          /\ Len(events) <= 1
          /\ Len(events) = 1 => ret.current = <<>>

C12_Witness ==
    /\ op = "parent_list"
    /\ call.pid = VInt(-1)
    /\ call.follow
    /\ ps.table[os_getpid] # <<>>
    /\ Len(events) = 1
    /\ ret.result = <<>>

----------------------------------------------------------------------------
(* CaptureOutput and the dry-run flag (context.py; runez.py has the same two statements) *)

MaxDepth == 3      \* at most this many CaptureOutput contexts are nested

\* CaptureOutput(dryrun=arg): self.dryrun is "None", "True" or "False"
CaptureOutput(arg) == [dryrun |-> arg]

bool(v) == v = "True"
str(b) == IF b THEN "True" ELSE "False"

\* __enter__ that keeps no record of the flag it replaces
CaptureOutput_enter_mutant_no_swap(self, flag) ==
    IF self.dryrun # "None" THEN [self |-> self, flag |-> bool(self.dryrun)]
    ELSE [self |-> self, flag |-> flag]

\* CaptureOutput.__enter__: (State.dryrun, self.dryrun) = (bool(self.dryrun), bool(State.dryrun))
CaptureOutput_enter(self, flag) ==
    IF self.dryrun # "None" THEN [self |-> [self EXCEPT !.dryrun = str(flag)], flag |-> bool(self.dryrun)]
    ELSE [self |-> self, flag |-> flag]

\* CaptureOutput.__exit__: State.dryrun = self.dryrun
CaptureOutput_exit(self, flag) ==
    IF self.dryrun # "None" THEN bool(self.dryrun) ELSE flag

\* "with CaptureOutput(dryrun=arg):" is reached; call keeps the flag as it was before
Enter ==
    /\ Idle
    /\ Len(contexts) < MaxDepth
    /\ \E arg \in {"None", "True", "False"} :
        LET entered == CaptureOutput_enter(CaptureOutput(arg), dryrun)
        IN /\ dryrun' = entered.flag
           /\ contexts' = Append(contexts, [self |-> entered.self, arg |-> arg, before |-> dryrun])
           /\ op' = "CaptureOutput.__enter__"
           /\ call' = [arg |-> arg, before |-> dryrun]
    /\ ret' = <<>>
    /\ events' = <<>>
    /\ UNCHANGED <<PATH, cwd, files, ps, tmp, disk, sys, anchors, pending>>

\* the body of the innermost "with" is left, at its end or by an exception: either way
\* __exit__ runs; call keeps what the flag was before the matching enter and before the exit
Exit ==
    /\ Idle
    /\ contexts # <<>>
    /\ \E how \in {"normal", "exception"} :
        LET top == contexts[Len(contexts)]
        IN /\ dryrun' = CaptureOutput_exit(top.self, dryrun)
           /\ contexts' = SubSeq(contexts, 1, Len(contexts) - 1)
           /\ op' = "CaptureOutput.__exit__"
           /\ call' = [arg |-> top.arg, before |-> top.before, inside |-> dryrun, how |-> how]
    /\ ret' = <<>>
    /\ events' = <<>>
    /\ UNCHANGED <<PATH, cwd, files, ps, tmp, disk, sys, anchors, pending>>

InitCapture ==
    /\ PATH = DirB
    /\ cwd = DirC
    /\ files = [f \in FilePaths |-> "absent"]
    /\ dryrun \in BOOLEAN
    /\ InitCall
    /\ NoProcesses
    /\ NoContexts
    /\ NoTmp /\ NoStreams /\ NoAnchors /\ NoPending
    /\ NoDisk

NextCapture == Enter \/ Exit \/ Return

SpecCapture == InitCapture /\ [][NextCapture]_vars

\* C13: entering CaptureOutput(dryrun=X) with X not None sets the dry-run flag to X; leaving
\* a context, at the end of its body or by an exception, sets the flag to what it was right
\* before the matching enter; a context with dryrun=None changes the flag neither when it
\* is entered nor when it is left
C13_FlagSavedAndRestored ==
    /\ op = "CaptureOutput.__enter__" =>
          dryrun = (IF call.arg = "None" THEN call.before ELSE bool(call.arg))
    /\ op = "CaptureOutput.__exit__" =>
          /\ dryrun = call.before
          /\ call.arg = "None" => dryrun = call.inside

C13_Witness ==
    /\ op = "CaptureOutput.__exit__"
    /\ call.how = "exception"
    /\ call.arg = "True"
    /\ call.inside = TRUE
    /\ Len(contexts) = 1
    /\ contexts[1].arg = "False"
    /\ contexts[1].before = TRUE
    /\ dryrun = FALSE

----------------------------------------------------------------------------
(* program.run under PYCHARM_HOSTED: _WrappedArgs *)

MaxTmp == 2        \* run() is called while fewer than this many temporary folders exist

Python == <<"p", "y", "t", "h", "o", "n">>

\* "sub in s"
in_str(sub, s) == \E i \in 1..(Len(s) - Len(sub) + 1) : SubSeq(s, i, i + Len(sub) - 1) = sub

\* s[:n]
str_prefix(s, n) == SubSeq(s, 1, IF Len(s) < n THEN Len(s) ELSE n)

\* the name of the i-th temporary folder
TmpName(i) == <<"/", "t", ToString(i)>>

\* os.path.realpath(tempfile.mkdtemp()): a folder that did not exist
mkdtemp(existing) ==
    TmpName(CHOOSE i \in 1..(Cardinality(existing) + 1) :
                /\ TmpName(i) \notin existing
                /\ \A j \in 1..(i - 1) : TmpName(j) \in existing)

BinSh == <<"/", "b", "i", "n", "/", "s", "h">>
WrapperSh == <<"/", "p", "y", "d", "e", "v", "-", "w", "r", "a", "p", "p", "e", "r", ".", "s", "h">>

\* the test of _WrappedArgs.__enter__ (not WINDOWS)
wrapper_applies(args, hosted) ==
    /\ hosted
    /\ Len(args) > 1
    /\ in_str(Python, args[1])
    /\ str_prefix(args[2], 2) \in {<<"-", "m">>, <<"-", "X">>}

\* _WrappedArgs.__enter__: os says whether mkdtemp and the write of the wrapper succeed
WrappedArgs_enter(args, hosted, os, existing) ==
    IF ~wrapper_applies(args, hosted)
    THEN [raised |-> FALSE, tmp_folder |-> None, args |-> args, tmp |-> existing, events |-> <<>>]
    ELSE IF os.mkdtemp = "OSError"
         THEN [raised |-> TRUE, tmp_folder |-> None, args |-> args, tmp |-> existing,
               events |-> <<Event("mkdtemp", "raised", "", 0)>>]
    ELSE IF os.write = "OSError"
         THEN [raised |-> TRUE, tmp_folder |-> mkdtemp(existing), args |-> args,
               tmp |-> existing \cup {mkdtemp(existing)},
               events |-> <<Event("mkdtemp", "created", "", 0), Event("write", "raised", "", 0)>>]
    ELSE [raised |-> FALSE, tmp_folder |-> mkdtemp(existing),
          args |-> <<BinSh, mkdtemp(existing) \o WrapperSh>> \o args,
          tmp |-> existing \cup {mkdtemp(existing)},
          events |-> <<Event("mkdtemp", "created", "", 0), Event("write", "written", "", 0)>>]

\* _WrappedArgs.__exit__: the folders that exist afterwards
WrappedArgs_exit(tmp_folder, existing) ==
    IF tmp_folder # None THEN existing \ {tmp_folder} ELSE existing

\* the events of _WrappedArgs.__exit__
WrappedArgs_exit_events(tmp_folder) ==
    IF tmp_folder # None THEN <<Event("rmtree", "deleted", "", 0)>> ELSE <<>>

\* program.run with _WrappedArgs: an exception of __enter__ leaves run() as it is, since the
\* with statement runs __exit__ only once the body was entered
run_wrapped(c, flag, path, wd, fs, existing) ==
    LET full_path == which(c.program, FALSE, path, wd, fs)
        message == IF kw_dryrun(c, flag) THEN "Would run" ELSE "Running"
        logged == IF c.logger # "None" THEN <<Logged("logger", message)>> ELSE <<>>
        entered == WrappedArgs_enter(<<full_path>> \o c.args, c.hosted, c.os, existing)
        body == run_spawn(kw_fatal(c), c.stdout, c.stderr, c.include_error, c.child)
    IN IF kw_dryrun(c, flag) \/ ~truthy(full_path)
       THEN [outcome |-> run(c, flag, path, wd, fs), tmp |-> existing, argv |-> <<>>]
       ELSE IF entered.raised
            THEN [outcome |-> Outcome(logged \o entered.events, Raised("OSError", 0)),
                  tmp |-> entered.tmp, argv |-> <<>>]
       ELSE [outcome |-> Outcome(logged \o entered.events \o body.events
                                   \o WrappedArgs_exit_events(entered.tmp_folder), body.ret),
             tmp |-> WrappedArgs_exit(entered.tmp_folder, entered.tmp),
             argv |-> IF body.events[1].msg = "spawned" THEN entered.args ELSE <<>>]

----------------------------------------------------------------------------
(* SpecWrapped: calls of run() with and without PYCHARM_HOSTED in the environment *)

ArgVectors == {<<>>, <<<<"-", "m", "v">>, <<"f">>>>, <<<<"-", "c">>, <<"f">>>>, <<<<"-">>>>}

OsOutcomes == {[mkdtemp |-> "OSError", write |-> ""], [mkdtemp |-> "ok", write |-> "OSError"],
               [mkdtemp |-> "ok", write |-> "ok"]}

\* the record of a call: what the os did for the wrapper is part of it only if it was asked
CalledWrapped(c, r) ==
    [Called(c, r.outcome) EXCEPT !.os = IF HasEvent(r.outcome.events, "mkdtemp") THEN c.os
                                        ELSE [mkdtemp |-> "", write |-> ""]]

RunWrapped ==
    /\ Idle
    /\ Cardinality(tmp) < MaxTmp
    /\ \E c \in [program : {ProgP, Python}, args : ArgVectors, hosted : BOOLEAN, os : OsOutcomes,
              fatal : {"unset", "False"}, dryrun : {"unset"}, stdout : Streams,
              stderr : {"None"}, logger : {"unset"}, include_error : {FALSE},
              child : ChildOutcomes] :
        LET r == run_wrapped(c, dryrun, PATH, cwd, files, tmp)
        IN /\ op' = "run_wrapped"
           /\ call' = [c |-> CalledWrapped(c, r), tmp |-> tmp, argv |-> r.argv]
           /\ ret' = r.outcome.ret
           /\ events' = r.outcome.events
           /\ tmp' = r.tmp
           /\ UNCHANGED <<PATH, cwd, files, dryrun, ps, contexts, disk, sys, anchors, pending>>

InitWrapped ==
    /\ PATH = DirB
    /\ cwd = DirC
    /\ files \in [{os_path_join(DirB, ProgP), os_path_join(DirB, Python)} -> {"absent", "exec"}]
    /\ dryrun \in BOOLEAN
    /\ InitCall
    /\ NoProcesses
    /\ NoContexts
    /\ NoTmp /\ NoStreams /\ NoAnchors /\ NoPending
    /\ NoDisk

NextWrapped == RunWrapped \/ Return

SpecWrapped == InitWrapped /\ [][NextWrapped]_vars

\* the argument vector run() builds: [full_path] + args
GivenArgs == <<which(call.c.program, FALSE, PATH, cwd, files)>> \o call.c.args

\* C14 (as claimed): whatever the outcome of run() is (success, abort, an exception of the
\* spawn, a failure to write the wrapper script), the temporary folders that exist when it
\* returns or raises are those that existed when it was called; when the workaround does
\* not apply, no folder is made and the child gets the argument vector unchanged
C14_WrapperFolderDeleted ==
    op = "run_wrapped" =>
        /\ tmp = call.tmp
        /\ ~wrapper_applies(GivenArgs, call.c.hosted) =>
              /\ ~HasEvent(events, "mkdtemp")
              /\ call.argv \in {<<>>, GivenArgs}

----------------------------------------------------------------------------
(* SpecAbort: calls of runez.py's abort() *)

Pairs == {"(False, 'some-return')", "(None, 'some-return')"}

\* kwargs.pop(...) with the defaults of abort(); code is <<>> when not given
kw_code(c) == IF c.code = <<>> THEN 1 ELSE c.code[1]
kw_logger(c) == IF c.logger = "unset" THEN "warning" ELSE c.logger
kw_return_value(c) == IF c.return_value = "unset" THEN Returned("int", -1) ELSE Returned("None", 0)

Abort ==
    /\ Idle
    /\ \E c \in [msg : {"", "aborted"}, code : {<<>>} \cup {<<n>> : n \in 0..MaxCode},
              fatal : {"unset", "True", "False", "None"} \cup Pairs, quiet : BOOLEAN,
              logger : {"unset", "custom"}, return_value : {"unset", "None"},
              state : [output : BOOLEAN, testing : BOOLEAN, logging : BOOLEAN]] :
        LET outcome == abort(c.msg, kw_code(c), kw_logger(c), kw_fatal(c), c.quiet,
                             kw_return_value(c), c.state)
        IN /\ op' = "abort"
           /\ call' = c
           /\ ret' = outcome.ret
           /\ events' = outcome.events
           /\ UnchangedEnv

InitAbort ==
    /\ PATH = DirB
    /\ cwd = DirC
    /\ files = [f \in FilePaths |-> "absent"]
    /\ dryrun = FALSE
    /\ InitCall
    /\ InitOthers

NextAbort == Abort \/ Return

SpecAbort == InitAbort /\ [][NextAbort]_vars

\* C15 (as claimed): abort() with the default fatal exits with code 1, or with the code
\* given; with fatal False or None, or a pair (False, value) or (None, value), it does not
\* exit: it returns return_value (-1 by default), or the value of the pair
C15_ExitsOrReturnsSentinel ==
    op = "abort" =>
        /\ call.fatal \in {"unset", "True"} => ret = Raised("SystemExit", kw_code(call))
        /\ call.fatal \in {"False", "None"} => ret = kw_return_value(call)
        /\ call.fatal \in Pairs => ret = Returned("some-return", 0)

\* the events that show the message to the user or log it
Emissions == SelectSeq(events, LAMBDA ev : ev.e \notin {"abort", "sys.exit"})
MarkedError == SelectSeq(events, LAMBDA ev : ev.e \in {"LOG.error", "print ERROR"})

\* C16 (as claimed): abort() never exits without having emitted the message before; a
\* non-fatal abort with code 0 emits the message as a warning, not marked ERROR
C16_MessageAlwaysBeforeExit ==
    op = "abort" =>
        /\ ret.kind = "raise" =>
              \E i, j \in 1..Len(events) :
                  /\ i < j
                  /\ events[i].e \notin {"abort", "sys.exit"}
                  /\ events[j].e = "sys.exit"
        /\ (ret.kind = "return" /\ kw_code(call) = 0) =>
              /\ Emissions # <<>>
              /\ MarkedError = <<>>

\* abort() was given a message to report, and somewhere to report it to
Reports ==
    /\ ~call.quiet
    /\ call.msg # ""
    /\ \/ call.state.output \/ call.state.testing \/ call.state.logging
       \/ kw_code(call) = 0 /\ kw_logger(call) # "warning"

\* C16 (amended): unless quiet=True or no message is given, abort() reports the message
\* (printed when State.output or State.testing, logged when State.logging) before it exits:
\* the exit is the last thing it does; with code 0 the message goes to the logger (warning
\* by default) and is never marked ERROR, with any other code it is marked ERROR
C16_MessageBeforeExitUnlessQuiet ==
    op = "abort" =>
        /\ \A i \in 1..Len(events) : events[i].e = "sys.exit" => i = Len(events)
        /\ Reports =>
              /\ Emissions # <<>>
              /\ \A i \in 1..Len(Emissions) : Emissions[i].msg = call.msg
        /\ ~Reports => Emissions = <<>>
        /\ kw_code(call) = 0 => MarkedError = <<>>
        /\ kw_code(call) # 0 => MarkedError = Emissions

C16_Witness ==
    /\ op = "abort"
    /\ call.fatal = "unset"
    /\ call.code = <<>>
    /\ ~call.quiet
    /\ call.state = DefaultState
    /\ events = <<Event("abort", "aborted", "True", 1), Logged("print ERROR", "aborted"),
                  Event("sys.exit", "", "", 1)>>
    /\ ret = Raised("SystemExit", 1)

----------------------------------------------------------------------------
(* The file system of the file operations: a tree of folders, files and symbolic links. *)
(* A path is a string as before; disk maps every path of the universe to its node.      *)

Root == <<"/">>
Pd == <<"/", "d">>
Pdf == <<"/", "d", "/", "f">>
Pe == <<"/", "e">>
Pef == <<"/", "e", "/", "f">>

FsPaths == {Root, Pd, Pdf, Pe, Pef}

\* no path: what a path that leads nowhere resolves to
NoPath == <<>>

Absent == [kind |-> "absent", data |-> "", x |-> FALSE, target |-> NoPath]
File(data, x) == [kind |-> "file", data |-> data, x |-> x, target |-> NoPath]
Dir == [kind |-> "dir", data |-> "", x |-> TRUE, target |-> NoPath]
Link(target) == [kind |-> "link", data |-> "", x |-> FALSE, target |-> target]

\* the index of the last "/" of an absolute path
last_slash(p) == CHOOSE i \in 1..Len(p) : p[i] = SLASH /\ \A j \in (i + 1)..Len(p) : p[j] # SLASH

\* os.path.dirname and os.path.basename of an absolute, normalized path
os_path_dirname(p) == IF last_slash(p) = 1 THEN Root ELSE SubSeq(p, 1, last_slash(p) - 1)
os_path_basename(p) == SubSeq(p, last_slash(p) + 1, Len(p))

\* the names a path is made of
components(p) == SelectSeq(split(p, SLASH), LAMBDA c : c # <<>>)

\* how many links one path resolution follows before it gives up (ELOOP)
MaxLinks == 3

RECURSIVE resolve(_, _, _, _)
RECURSIVE walk(_, _, _, _, _)

\* the node a path names, reached from folder cur through the names comps: links are
\* followed, the last one only if follow_last; NoPath when the path leads nowhere
walk(d, cur, comps, follow_last, fuel) ==
    IF comps = <<>> THEN cur
    ELSE IF d[cur].kind # "dir" THEN NoPath
    ELSE LET next == os_path_join(cur, Head(comps))
         IN IF next \notin DOMAIN d THEN NoPath
            ELSE IF d[next].kind = "link" /\ (Len(comps) > 1 \/ follow_last)
                 THEN IF fuel = 0 THEN NoPath
                      ELSE LET t == resolve(d, d[next].target, TRUE, fuel - 1)
                           IN IF t = NoPath THEN NoPath
                              ELSE walk(d, t, Tail(comps), follow_last, fuel)
            ELSE walk(d, next, Tail(comps), follow_last, fuel)

resolve(d, p, follow_last, fuel) == walk(d, Root, components(p), follow_last, fuel)

\* the node of path p, links followed (stat) or the last one not followed (lstat)
stat(d, p) == IF resolve(d, p, TRUE, MaxLinks) = NoPath THEN Absent
              ELSE d[resolve(d, p, TRUE, MaxLinks)]
lstat(d, p) == IF resolve(d, p, FALSE, MaxLinks) = NoPath THEN Absent
               ELSE d[resolve(d, p, FALSE, MaxLinks)]

os_path_exists(d, p) == stat(d, p).kind \in {"file", "dir"}
os_path_isdir(d, p) == stat(d, p).kind = "dir"
os_path_islink(d, p) == lstat(d, p).kind = "link"

\* the file system as is_executable sees it: which paths are files, and which executable
as_files(d) ==
    [p \in DOMAIN d |-> IF stat(d, p).kind # "file" THEN "absent"
                        ELSE IF stat(d, p).x THEN "exec" ELSE "file"]

----------------------------------------------------------------------------
(* What the operating system does for the file operations.  A call gives the new file   *)
(* system and whether it succeeded (ok; otherwise it raised OSError); allowed is FALSE  *)
(* when the system refuses the call for a reason the model does not hold (permissions). *)
(* out says that the call needs a path outside the universe: the paths of the universe  *)
(* are at most two names deep, and its folders at most one.                            *)

Did(d) == [ok |-> TRUE, disk |-> d, out |-> FALSE]
Failed(d) == [ok |-> FALSE, disk |-> d, out |-> FALSE]
Outside(d) == [ok |-> FALSE, disk |-> d, out |-> TRUE]

\* q is r or lies below r
below(r, q) == q = r \/ (IF r = Root THEN TRUE ELSE startswith(q, r \o <<SLASH>>))

\* os.unlink(p)
os_unlink(d, p, allowed) ==
    LET r == resolve(d, p, FALSE, MaxLinks)
    IN IF allowed /\ r # NoPath /\ d[r].kind \in {"file", "link"}
       THEN Did([d EXCEPT ![r] = Absent]) ELSE Failed(d)

\* shutil.rmtree(p): refuses a symbolic link
shutil_rmtree(d, p, allowed) ==
    LET r == resolve(d, p, FALSE, MaxLinks)
    IN IF allowed /\ r \notin {NoPath, Root} /\ d[r].kind = "dir"
       THEN Did([q \in DOMAIN d |-> IF below(r, q) THEN Absent ELSE d[q]]) ELSE Failed(d)

\* os.mkdir(p)
os_mkdir(d, p, allowed) ==
    LET r == resolve(d, p, FALSE, MaxLinks)
    IN IF ~allowed \/ r = NoPath \/ d[r].kind # "absent" THEN Failed(d)
       ELSE IF os_path_dirname(r) # Root THEN Outside(d)
       ELSE Did([d EXCEPT ![r] = Dir])

RECURSIVE os_makedirs(_, _, _)
\* os.makedirs(p): the missing folders above p are made first
os_makedirs(d, p, allowed) ==
    IF p # Root /\ ~os_path_exists(d, os_path_dirname(p))
    THEN os_mkdir(os_makedirs(d, os_path_dirname(p), allowed).disk, p, allowed)
    ELSE os_mkdir(d, p, allowed)

\* open(p, "wt") and a write of data: the file is made, or emptied and written
open_wt(d, p, data, allowed) ==
    LET r == resolve(d, p, TRUE, MaxLinks)
    IN IF allowed /\ r # NoPath /\ d[r].kind \in {"absent", "file"}
       THEN Did([d EXCEPT ![r] = File(data, d[r].x)]) ELSE Failed(d)

\* os.chmod(p, 0o755)
os_chmod(d, p, allowed) ==
    LET r == resolve(d, p, TRUE, MaxLinks)
    IN IF allowed /\ r # NoPath /\ d[r].kind \in {"file", "dir"}
       THEN Did([d EXCEPT ![r].x = TRUE]) ELSE Failed(d)

\* os.path.join(dst, basename(src)), if dst is a folder
into(d, src, dst) == IF os_path_isdir(d, dst) THEN os_path_join(dst, os_path_basename(src)) ELSE dst

\* shutil.copy(src, dst) for a file src: contents and mode are copied
shutil_copy(d, src, dst, allowed) ==
    LET to == resolve(d, into(d, src, dst), TRUE, MaxLinks)
        from == resolve(d, src, TRUE, MaxLinks)
    IN IF os_path_isdir(d, dst) /\ into(d, src, dst) \notin DOMAIN d THEN Outside(d)
       ELSE IF allowed /\ stat(d, src).kind = "file" /\ to # NoPath /\ to # from
               /\ d[to].kind \in {"absent", "file"}
            THEN Did([d EXCEPT ![to] = File(d[from].data, d[from].x)]) ELSE Failed(d)

\* the node at q after the tree at r was put at t as well (copy) or instead (move)
placed(d, r, t, q, moved) ==
    IF below(t, q)
    THEN (IF r \o SubSeq(q, Len(t) + 1, Len(q)) \in DOMAIN d
          THEN d[r \o SubSeq(q, Len(t) + 1, Len(q))] ELSE Absent)
    ELSE IF moved /\ below(r, q) THEN Absent
    ELSE d[q]

\* shutil.copytree(src, dst, symlinks=True): dst must not exist
shutil_copytree(d, src, dst, allowed) ==
    LET r == resolve(d, src, TRUE, MaxLinks)
        t == resolve(d, dst, FALSE, MaxLinks)
    IN IF ~allowed \/ r \in {NoPath, Root} \/ t = NoPath THEN Failed(d)
       ELSE IF d[r].kind # "dir" \/ d[t].kind # "absent" \/ below(r, t) THEN Failed(d)
       ELSE IF os_path_dirname(t) # Root THEN Outside(d)
       ELSE Did([q \in DOMAIN d |-> placed(d, r, t, q, FALSE)])

\* shutil.move(src, dst): into dst if it is a folder, else os.rename, which replaces a file
shutil_move(d, src, dst, allowed) ==
    LET r == resolve(d, src, FALSE, MaxLinks)
        t == resolve(d, into(d, src, dst), FALSE, MaxLinks)
    IN IF os_path_isdir(d, dst) /\ into(d, src, dst) \notin DOMAIN d THEN Outside(d)
       ELSE IF ~allowed \/ r \in {NoPath, Root} \/ t = NoPath THEN Failed(d)
       ELSE IF d[r].kind = "absent" \/ below(r, t) THEN Failed(d)
       ELSE IF os_path_isdir(d, dst) /\ d[t].kind # "absent" THEN Failed(d)
       ELSE IF d[t].kind = "dir" \/ (d[t].kind # "absent" /\ d[r].kind = "dir") THEN Failed(d)
       ELSE IF d[r].kind = "dir" /\ os_path_dirname(t) # Root THEN Outside(d)
       ELSE Did([q \in DOMAIN d |-> placed(d, r, t, q, TRUE)])

\* os.symlink(src, dst)
os_symlink(d, src, dst, allowed) ==
    LET t == resolve(d, dst, FALSE, MaxLinks)
    IN IF allowed /\ t # NoPath /\ d[t].kind = "absent"
       THEN Did([d EXCEPT ![t] = Link(src)]) ELSE Failed(d)

----------------------------------------------------------------------------
(* Python values and their JSON text, as json.dump writes it and json.load reads it *)

PyNone == [t |-> "None", s |-> "", n |-> 0, k |-> <<>>, l |-> <<>>]
PyBool(b) == [t |-> "bool", s |-> "", n |-> IF b THEN 1 ELSE 0, k |-> <<>>, l |-> <<>>]
PyInt(i) == [t |-> "int", s |-> "", n |-> i, k |-> <<>>, l |-> <<>>]
PyStr(x) == [t |-> "str", s |-> x, n |-> 0, k |-> <<>>, l |-> <<>>]
PyList(items) == [t |-> "list", s |-> "", n |-> 0, k |-> <<>>, l |-> items]
PyTuple(items) == [t |-> "tuple", s |-> "", n |-> 0, k |-> <<>>, l |-> items]
PyDict(keys, values) == [t |-> "dict", s |-> "", n |-> 0, k |-> keys, l |-> values]
\* a set: json.dump has no encoding for it
PySet(items) == [t |-> "set", s |-> "", n |-> 0, k |-> <<>>, l |-> items]
\* an object whose to_dict() gives v
PyObject(v) == [t |-> "object", s |-> "", n |-> 0, k |-> <<>>, l |-> <<v>>]

hasattr_to_dict(v) == v.t = "object"
to_dict(v) == v.l[1]

\* the values the model saves and gives as defaults: at most one item in a container
PyAtoms == {PyNone, PyBool(TRUE), PyInt(1), PyStr("a"), PyStr("1")}
PyKeys == {PyStr("a"), PyStr("1"), PyInt(1)}
PyDicts == {PyDict(<<>>, <<>>)} \cup {PyDict(<<k>>, <<v>>) : k \in PyKeys, v \in PyAtoms}
PyLists == {PyList(<<>>)} \cup {PyList(<<v>>) : v \in PyAtoms}
PyTuples == {PyTuple(<<>>)} \cup {PyTuple(<<v>>) : v \in PyAtoms}
PyValues ==
    PyAtoms \cup PyDicts \cup PyLists \cup PyTuples \cup {PySet(<<>>)}
      \cup {PyObject(v) : v \in {PyDict(<<PyStr("a")>>, <<PyStr("a")>>),
                                 PyDict(<<PyInt(1)>>, <<PyStr("a")>>)}}

\* what json.load can give: dict keys are strings, arrays are lists
JsonBorn ==
    PyAtoms \cup PyLists \cup {PyDict(<<>>, <<>>)}
      \cup {PyDict(<<k>>, <<v>>) : k \in {PyStr("a"), PyStr("1")}, v \in PyAtoms}

QUOTE == "\""

\* json.dump has an encoding for v
RECURSIVE json_serializable(_)
json_serializable(v) ==
    IF v.t \in {"None", "bool", "int", "str"} THEN TRUE
    ELSE IF v.t \in {"list", "tuple"} THEN \A i \in DOMAIN v.l : json_serializable(v.l[i])
    ELSE IF v.t = "dict"
    THEN /\ \A i \in DOMAIN v.k : v.k[i].t \in {"None", "bool", "int", "str"}
         /\ \A i \in DOMAIN v.l : json_serializable(v.l[i])
    ELSE FALSE

\* the text of a scalar
json_scalar(v) ==
    IF v.t = "None" THEN "null"
    ELSE IF v.t = "bool" THEN (IF v.n = 1 THEN "true" ELSE "false")
    ELSE IF v.t = "int" THEN ToString(v.n)
    ELSE QUOTE \o v.s \o QUOTE

\* a key of a dict: a string as it is, any other scalar as the string of its text
json_key(v) == IF v.t = "str" THEN json_scalar(v) ELSE QUOTE \o json_scalar(v) \o QUOTE

RECURSIVE json_items(_, _)
RECURSIVE json_dumps(_)
\* the items of a container, separated by commas; keys is <<>> for a list
json_items(keys, values) ==
    IF values = <<>> THEN ""
    ELSE (IF keys = <<>> THEN "" ELSE json_key(Head(keys)) \o ": ")
           \o json_dumps(Head(values))
           \o (IF Tail(values) = <<>> THEN ""
               ELSE ", " \o json_items(IF keys = <<>> THEN <<>> ELSE Tail(keys), Tail(values)))

\* json.dump(data, fh, sort_keys=sort_keys, indent=indent) and the newline after it
json_dumps(v) ==
    IF v.t \in {"list", "tuple"} THEN "[" \o json_items(<<>>, v.l) \o "]"
    ELSE IF v.t = "dict" THEN "{" \o json_items(v.k, v.l) \o "}"
    ELSE json_scalar(v)

\* json.load(fh): the value whose text the file holds; no value for any other text
json_valid(text) == \E v \in JsonBorn : json_dumps(v) = text
json_load(text) == CHOOSE v \in JsonBorn : json_dumps(v) = text

\* what a function that gives a Python value returned
ReturnedValue(v) == [kind |-> "return", t |-> "value", n |-> 0, v |-> v]

----------------------------------------------------------------------------
(* runez.py: the file operations.  Each gives the file system it leaves, the events of  *)
(* the call and what it returned or raised.  flag is DRYRUN; os says which call of the  *)
(* operating system, if any, is refused.                                                *)

\* runez.py: debug() logs when State.logging and prints when State.testing
debug(msg, state) ==
    (IF state.logging THEN <<Logged("LOG.debug", msg)>> ELSE <<>>)
      \o (IF state.testing THEN <<Logged("print", msg)>> ELSE <<>>)

FsResult(d, evs, r, out) == [disk |-> d, events |-> evs, ret |-> r, out |-> out]

\* abort(msg, fatal=fatal) as the file operations call it: code 1, return_value -1
FsAbort(d, evs, msg, fatal, state, out) ==
    LET a == abort(msg, 1, "warning", fatal, FALSE, Returned("int", -1), state)
    IN FsResult(d, evs \o a.events, a.ret, out)

\* ensure_folder
ensure_folder(d, flag, path, folder, fatal, quiet, state, os) ==
    LET f == IF folder THEN path ELSE os_path_dirname(path)
        made == os_makedirs(d, f, os # "makedirs")
    IN IF path = <<>> THEN FsResult(d, <<>>, Returned("int", 0), FALSE)
       ELSE IF os_path_isdir(d, f) THEN FsResult(d, <<>>, Returned("int", 0), FALSE)
       ELSE IF flag THEN FsResult(d, debug("Would create", state), Returned("int", 1), FALSE)
       ELSE IF made.ok
            THEN FsResult(made.disk, IF ~quiet THEN debug("Created folder", state) ELSE <<>>,
                          Returned("int", 1), FALSE)
       ELSE FsAbort(made.disk, <<>>, "Can't create folder", fatal, state, made.out)

\* write_contents; touch(path) is write_contents(path, "")
write_contents(d, flag, path, contents, fatal, quiet, state, os) ==
    LET ensured == ensure_folder(d, flag, path, FALSE, fatal, quiet, state, os)
        written == open_wt(ensured.disk, path, contents, os # "write")
        writing == IF ~quiet /\ contents # "" THEN debug("Writing", state) ELSE <<>>
    IN IF path = <<>> THEN FsResult(d, <<>>, Returned("int", 0), FALSE)
       ELSE IF flag
            THEN FsResult(d, debug(IF contents # "" THEN "Would write" ELSE "Would touch", state),
                          Returned("int", 1), FALSE)
       ELSE IF ensured.ret.kind = "raise" \/ ensured.out THEN ensured
       ELSE IF written.ok
            THEN FsResult(written.disk, ensured.events \o writing, Returned("int", 1), FALSE)
       ELSE FsAbort(written.disk, ensured.events \o writing, "Can't write to", fatal, state,
                    written.out)

\* a save_json that writes nothing
save_json_mutant_writes_nothing(d, flag, data, path, fatal, quiet, state, os) ==
    LET ensured == ensure_folder(d, flag, path, FALSE, fatal, quiet, state, os)
    IN IF data = PyNone \/ path = <<>> THEN FsResult(d, <<>>, Returned("int", 0), FALSE)
       ELSE IF ensured.ret.kind = "raise" \/ ensured.out THEN ensured
       ELSE FsResult(ensured.disk, ensured.events, Returned("int", 1), FALSE)
\* save_json: open(path, "wt") empties the file before json.dump writes to it
save_json(d, flag, data, path, fatal, quiet, state, os) ==
    LET ensured == ensure_folder(d, flag, path, FALSE, fatal, quiet, state, os)
        saved == IF hasattr_to_dict(data) THEN to_dict(data) ELSE data
        opened == open_wt(ensured.disk, path, "", os # "write")
        written == open_wt(ensured.disk, path, json_dumps(saved), os # "write")
    IN IF data = PyNone \/ path = <<>> THEN FsResult(d, <<>>, Returned("int", 0), FALSE)
       ELSE IF ensured.ret.kind = "raise" \/ ensured.out THEN ensured
       ELSE IF flag
            THEN FsResult(ensured.disk, ensured.events \o debug("Would save", state),
                          Returned("int", 1), FALSE)
       ELSE IF ~json_serializable(saved)
            THEN FsAbort(opened.disk, ensured.events, "Couldn't save", fatal, state, opened.out)
       ELSE IF written.ok
            THEN FsResult(written.disk,
                          ensured.events \o (IF ~quiet THEN debug("Saved", state) ELSE <<>>),
                          Returned("int", 1), FALSE)
       ELSE FsAbort(written.disk, ensured.events, "Couldn't save", fatal, state, written.out)

\* a read_json that does not compare the types
read_json_mutant_no_type_check(d, path, default, fatal, quiet, state, os) ==
    LET node == stat(d, path)
        no_file == abort("No file", 1, "warning", fatal, FALSE, ReturnedValue(PyNone), state)
        unread == abort("Couldn't read", 1, "warning", fatal, FALSE, ReturnedValue(default),
                        state)
    IN IF path = <<>> \/ ~os_path_exists(d, path)
       THEN (IF default = PyNone THEN FsResult(d, no_file.events, no_file.ret, FALSE)
             ELSE FsResult(d, <<>>, ReturnedValue(default), FALSE))
       ELSE IF os = "read" \/ node.kind # "file" \/ ~json_valid(node.data)
            THEN FsResult(d, unread.events, unread.ret, FALSE)
       ELSE FsResult(d, <<>>, ReturnedValue(json_load(node.data)), FALSE)
\* read_json: default is PyNone when none is given
read_json(d, path, default, fatal, quiet, state, os) ==
    LET node == stat(d, path)
        data == json_load(node.data)
        no_file == abort("No file", 1, "warning", fatal, FALSE, ReturnedValue(PyNone), state)
        unread == abort("Couldn't read", 1, "warning", fatal, FALSE, ReturnedValue(default),
                        state)
        wrong == abort("Wrong type", 1, "warning", fatal, FALSE, ReturnedValue(default), state)
    IN IF path = <<>> \/ ~os_path_exists(d, path)
       THEN (IF default = PyNone THEN FsResult(d, no_file.events, no_file.ret, FALSE)
             ELSE FsResult(d, <<>>, ReturnedValue(default), FALSE))
       ELSE IF os = "read" \/ node.kind # "file" \/ ~json_valid(node.data)
            THEN FsResult(d, unread.events, unread.ret, FALSE)
       ELSE IF default # PyNone /\ data.t # default.t
            THEN FsResult(d, wrong.events, wrong.ret, FALSE)
       ELSE FsResult(d, IF ~quiet THEN debug("Read", state) ELSE <<>>, ReturnedValue(data),
                     FALSE)

\* a delete that does not look at DRYRUN
delete_mutant_ignores_dryrun(d, flag, path, fatal, quiet, state, os) ==
    LET islink == path # <<>> /\ os_path_islink(d, path)
        gone == IF islink \/ stat(d, path).kind = "file"
                THEN os_unlink(d, path, os # "delete")
                ELSE shutil_rmtree(d, path, os # "delete")
    IN IF ~islink /\ (path = <<>> \/ ~os_path_exists(d, path))
       THEN FsResult(d, <<>>, Returned("int", 0), FALSE)
       ELSE IF gone.ok THEN FsResult(gone.disk, <<>>, Returned("int", 1), FALSE)
       ELSE FsAbort(gone.disk, <<>>, "Can't delete", fatal, state, gone.out)
\* delete
delete(d, flag, path, fatal, quiet, state, os) ==
    LET islink == path # <<>> /\ os_path_islink(d, path)
        gone == IF islink \/ stat(d, path).kind = "file"
                THEN os_unlink(d, path, os # "delete")
                ELSE shutil_rmtree(d, path, os # "delete")
        deleting == IF ~quiet THEN debug("Deleting", state) ELSE <<>>
    IN IF ~islink /\ (path = <<>> \/ ~os_path_exists(d, path))
       THEN FsResult(d, <<>>, Returned("int", 0), FALSE)
       ELSE IF flag THEN FsResult(d, debug("Would delete", state), Returned("int", 1), FALSE)
       ELSE IF gone.ok THEN FsResult(gone.disk, deleting, Returned("int", 1), FALSE)
       ELSE FsAbort(gone.disk, deleting, "Can't delete", fatal, state, gone.out)

\* _copy, _move and _symlink
file_func(d, func, source, destination, allowed) ==
    IF func = "copy"
    THEN (IF os_path_isdir(d, source) THEN shutil_copytree(d, source, destination, allowed)
          ELSE shutil_copy(d, source, destination, allowed))
    ELSE IF func = "move" THEN shutil_move(d, source, destination, allowed)
    ELSE os_symlink(d, source, destination, allowed)

\* a _file_op without its checks and its try: what func raises reaches the caller
file_op_mutant_no_except(d, flag, source, destination, func, fatal, quiet, must_exist, state, os) ==
    LET done == file_func(d, func, source, destination, os # "func")
    IN IF source = <<>> \/ destination = <<>> \/ source = destination
       THEN FsResult(d, <<>>, Returned("int", 0), FALSE)
       ELSE IF flag THEN FsResult(d, debug("Would " \o func, state), Returned("int", 1), FALSE)
       ELSE IF done.ok THEN FsResult(done.disk, <<>>, Returned("int", 1), FALSE)
       ELSE FsResult(done.disk, <<>>, Raised("OSError", 0), done.out)
\* _file_op (no adapter): SystemExit is no Exception, the except clause lets it pass
file_op(d, flag, source, destination, func, fatal, quiet, must_exist, state, os) ==
    LET psource == os_path_dirname(source)
        pdest == destination
        deleted == delete(d, flag, destination, fatal, TRUE, state, os)
        ensured == ensure_folder(deleted.disk, flag, destination, FALSE, fatal, quiet, state, os)
        sofar == deleted.events \o ensured.events
                   \o (IF ~quiet THEN debug(func, state) ELSE <<>>)
        done == file_func(ensured.disk, func, source, destination, os # "func")
    IN IF source = <<>> \/ destination = <<>> \/ source = destination
       THEN FsResult(d, <<>>, Returned("int", 0), FALSE)
       ELSE IF psource # pdest /\ startswith(psource, pdest)
            THEN FsAbort(d, <<>>, "source contained in destination", fatal, state, FALSE)
       ELSE IF flag THEN FsResult(d, debug("Would " \o func, state), Returned("int", 1), FALSE)
       ELSE IF must_exist /\ ~os_path_exists(d, source)
            THEN FsAbort(d, <<>>, "does not exist", fatal, state, FALSE)
       ELSE IF deleted.ret.kind = "raise" \/ deleted.out THEN deleted
       ELSE IF ensured.ret.kind = "raise" \/ ensured.out
            THEN FsResult(ensured.disk, deleted.events \o ensured.events, ensured.ret, ensured.out)
       ELSE IF done.ok THEN FsResult(done.disk, sofar, Returned("int", 1), FALSE)
       ELSE FsAbort(done.disk, sofar, "Can't " \o func, fatal, state, done.out)

\* runez.py: make_executable
runez_make_executable(d, flag, path, fatal, state, os) ==
    LET changed == os_chmod(d, path, os # "chmod")
    IN IF is_executable(path, Root, as_files(d)) THEN FsResult(d, <<>>, Returned("int", 0), FALSE)
       ELSE IF flag
            THEN FsResult(d, debug("Would make executable", state), Returned("int", 1), FALSE)
       ELSE IF ~os_path_exists(d, path) THEN FsAbort(d, <<>>, "does not exist", fatal, state, FALSE)
       ELSE IF changed.ok THEN FsResult(changed.disk, <<>>, Returned("int", 1), FALSE)
       ELSE FsAbort(changed.disk, <<>>, "Can't chmod", fatal, state, FALSE)

\* runez.system.abort called with fatal=(fatal, return_value): fatal=True raises, False logs
\* and returns return_value, None returns it silently
system_abort_pair(msg, fatal, code, return_value) ==
    Outcome(<<Event("abort", msg, fatal, code)>>
              \o (IF fatal # "None" THEN <<Logged("error", msg)>> ELSE <<>>),
            IF fatal = "True" THEN Raised("AbortException", code) ELSE return_value)

\* a make_executable that passes fatal alone and so returns it on failure
make_executable_mutant_returns_fatal(d, flag, path, fatal, os) ==
    LET changed == os_chmod(d, path, os # "chmod")
        failed == system_abort("Can't make executable", fatal, 1)
    IN IF is_executable(path, Root, as_files(d)) THEN FsResult(d, <<>>, Returned("int", 0), FALSE)
       ELSE IF flag
            THEN FsResult(d, <<Logged("LOG.debug", "Would make executable")>>,
                          Returned("int", 1), FALSE)
       ELSE IF os_path_exists(d, path) /\ changed.ok
            THEN FsResult(changed.disk, <<>>, Returned("int", 1), FALSE)
       ELSE FsResult(d, failed.events, failed.ret, FALSE)
\* program.make_executable
make_executable(d, flag, path, fatal, os) ==
    LET changed == os_chmod(d, path, os # "chmod")
        missing == system_abort_pair("does not exist", fatal, 1, Returned("int", -1))
        refused == system_abort_pair("Can't chmod", fatal, 1, Returned("int", -1))
    IN IF is_executable(path, Root, as_files(d)) THEN FsResult(d, <<>>, Returned("int", 0), FALSE)
       ELSE IF flag
            THEN FsResult(d, <<Logged("LOG.debug", "Would make executable")>>,
                          Returned("int", 1), FALSE)
       ELSE IF ~os_path_exists(d, path) THEN FsResult(d, missing.events, missing.ret, FALSE)
       ELSE IF changed.ok THEN FsResult(changed.disk, <<>>, Returned("int", 1), FALSE)
       ELSE FsResult(changed.disk, refused.events, refused.ret, FALSE)

----------------------------------------------------------------------------
(* SpecFiles: calls of the file operations, one after the other, on one file system *)

\* State while the operations run: debug messages are shown
ShownState == [output |-> TRUE, testing |-> TRUE, logging |-> FALSE]

PathArgs == FsPaths \cup {<<>>}
Sources == PathArgs \ {Root}
FatalArgs == {"True", "False"}

\* the file systems a sequence of calls starts from
StartDisk(nd, ndf, ne, nef) ==
    [p \in FsPaths |-> IF p = Root THEN Dir
                       ELSE IF p = Pd THEN nd
                       ELSE IF p = Pdf THEN ndf
                       ELSE IF p = Pe THEN ne
                       ELSE nef]

StartDisks ==
    {StartDisk(nd, ndf, ne, nef) :
        nd \in {Absent, File("", FALSE), Dir, Link(Pe)},
        ndf \in {Absent, File("", FALSE), File("a", TRUE)},
        ne \in {Absent, File("a", TRUE), Dir, Link(Pdf)},
        nef \in {Absent, File("a", FALSE)}}

Consistent(d) ==
    /\ d[Pdf] # Absent => d[Pd] = Dir
    /\ d[Pef] # Absent => d[Pe] = Dir

\* the call of one file operation, with its outcome r
FileCall(fn, source, path, arg, fatal, os, r) ==
    /\ ~r.out
    /\ op' = fn
    /\ call' = [source |-> source, path |-> path, arg |-> arg, fatal |-> fatal, os |-> os,
                flag |-> dryrun, before |-> disk]
    /\ ret' = r.ret
    /\ events' = r.events
    /\ disk' = r.disk
    /\ UNCHANGED <<PATH, cwd, files, dryrun, ps, contexts, tmp, sys, anchors, pending>>

EnsureFolder ==
    /\ Idle
    /\ \E path \in PathArgs, folder \in BOOLEAN, fatal \in FatalArgs, os \in {"", "makedirs"} :
         FileCall("ensure_folder", <<>>, path, IF folder THEN "folder" ELSE "file", fatal, os,
                  ensure_folder(disk, dryrun, path, folder, fatal, FALSE, ShownState, os))

WriteContents ==
    /\ Idle
    /\ \E path \in PathArgs, contents \in {"", "a"}, fatal \in FatalArgs,
          os \in {"", "makedirs", "write"} :
         FileCall(IF contents = "" THEN "touch" ELSE "write_contents", <<>>, path, contents,
                  fatal, os,
                  write_contents(disk, dryrun, path, contents, fatal, FALSE, ShownState, os))

SaveJson ==
    /\ Idle
    /\ \E path \in PathArgs, data \in {PyNone, PyDict(<<PyStr("a")>>, <<PyStr("a")>>)},
          fatal \in FatalArgs,
          os \in {"", "makedirs", "write"} :
         FileCall("save_json", <<>>, path, data, fatal, os,
                  save_json(disk, dryrun, data, path, fatal, FALSE, ShownState, os))

Delete ==
    /\ Idle
    /\ \E path \in PathArgs, fatal \in FatalArgs, os \in {"", "delete"} :
         FileCall("delete", <<>>, path, "", fatal, os,
                  delete(disk, dryrun, path, fatal, FALSE, ShownState, os))

FileOp ==
    /\ Idle
    /\ \E func \in {"copy", "move", "symlink"}, source \in Sources, destination \in PathArgs,
          fatal \in FatalArgs, os \in {"", "delete", "makedirs", "func"} :
         \E must_exist \in IF func = "symlink" THEN BOOLEAN ELSE {TRUE} :
            FileCall(func, source, destination, IF must_exist THEN "must_exist" ELSE "",
                     fatal, os,
                     file_op(disk, dryrun, source, destination, func, fatal, FALSE, must_exist,
                             ShownState, os))

RunezMakeExecutable ==
    /\ Idle
    /\ \E path \in PathArgs, fatal \in FatalArgs, os \in {"", "chmod"} :
         FileCall("runez.make_executable", <<>>, path, "", fatal, os,
                  runez_make_executable(disk, dryrun, path, fatal, ShownState, os))

MakeExecutable ==
    /\ Idle
    /\ \E path \in PathArgs, fatal \in FatalArgs \cup {"None"}, os \in {"", "chmod"} :
         FileCall("make_executable", <<>>, path, "", fatal, os,
                  make_executable(disk, dryrun, path, fatal, os))

InitFiles ==
    /\ PATH = <<>>
    /\ cwd = Root
    /\ files = <<>>
    /\ dryrun \in BOOLEAN
    /\ InitCall
    /\ NoProcesses /\ NoContexts /\ NoTmp /\ NoStreams /\ NoAnchors /\ NoPending
    /\ disk \in {d \in StartDisks : Consistent(d)}

NextFiles ==
    \/ EnsureFolder
    \/ WriteContents
    \/ SaveJson
    \/ Delete
    \/ FileOp
    \/ RunezMakeExecutable
    \/ MakeExecutable
    \/ Return

SpecFiles == InitFiles /\ [][NextFiles]_vars

----------------------------------------------------------------------------
(* Claims about make_executable *)

MakeExecutableCalled == op \in {"make_executable", "runez.make_executable"}
WasExecutable == is_executable(call.path, Root, as_files(call.before))
Existed == os_path_exists(call.before, call.path)

\* C18: make_executable returns 0 and changes nothing when the file is already executable;
\* in dry-run it returns 1 and changes nothing, whether the file exists or not; otherwise
\* it returns 1 and the file is executable afterwards; when the path does not exist or
\* chmod is refused and fatal=False, it returns -1, raises nothing and changes nothing.
C18_MakeExecutableReturns ==
    MakeExecutableCalled =>
        /\ WasExecutable => ret = Returned("int", 0) /\ disk = call.before
        /\ ~WasExecutable /\ call.flag => ret = Returned("int", 1) /\ disk = call.before
        /\ ~WasExecutable /\ ~call.flag /\ Existed /\ call.os # "chmod"
             => /\ ret = Returned("int", 1)
                /\ stat(disk, call.path).x
                /\ stat(call.before, call.path).kind = "file"
                     => is_executable(call.path, Root, as_files(disk))
        /\ ~WasExecutable /\ ~call.flag /\ (~Existed \/ call.os = "chmod")
              /\ call.fatal = "False"
             => ret = Returned("int", -1) /\ disk = call.before

C18_Witness ==
    /\ op = "make_executable"
    /\ ~call.flag
    /\ call.fatal = "False"
    /\ call.path = Pdf
    /\ ~Existed
    /\ ret = Returned("int", -1)

----------------------------------------------------------------------------
(* Claims about dry-run *)

FileOperations ==
    {"ensure_folder", "write_contents", "touch", "save_json", "copy", "move", "symlink",
     "delete", "make_executable", "runez.make_executable"}

\* the call in progress, made on the same file system with DRYRUN as given
Performed(flag) ==
    IF op = "ensure_folder"
    THEN ensure_folder(call.before, flag, call.path, call.arg = "folder", call.fatal, FALSE,
                       ShownState, call.os)
    ELSE IF op \in {"write_contents", "touch"}
    THEN write_contents(call.before, flag, call.path, call.arg, call.fatal, FALSE, ShownState,
                        call.os)
    ELSE IF op = "save_json"
    THEN save_json(call.before, flag, call.arg, call.path, call.fatal, FALSE, ShownState,
                   call.os)
    ELSE IF op = "delete"
    THEN delete(call.before, flag, call.path, call.fatal, FALSE, ShownState, call.os)
    ELSE IF op \in {"copy", "move", "symlink"}
    THEN file_op(call.before, flag, call.source, call.path, op, call.fatal, FALSE,
                 call.arg = "must_exist", ShownState, call.os)
    ELSE IF op = "runez.make_executable"
    THEN runez_make_executable(call.before, flag, call.path, call.fatal, ShownState, call.os)
    ELSE make_executable(call.before, flag, call.path, call.fatal, call.os)

WouldMessages ==
    {"Would create", "Would write", "Would touch", "Would save", "Would delete", "Would copy",
     "Would move", "Would symlink", "Would make executable"}

OnlyWouldMessages ==
    /\ events # <<>>
    /\ \A i \in DOMAIN events : events[i].e \in {"print", "LOG.debug"}
                                  /\ events[i].msg \in WouldMessages

DryRunCall == op \in FileOperations /\ call.flag

\* the call described and not performed: 0 and no message where it would have been a
\* no-op, otherwise 'Would ...' and 1, which it gives wherever it would have acted
DescribedOnly ==
    /\ ret \in {Returned("int", 0), Returned("int", 1)}
    /\ ret = Returned("int", 1) => OnlyWouldMessages
    /\ ret = Returned("int", 0) => events = <<>>
    /\ ~Performed(FALSE).out
         => /\ ret = Returned("int", 0) <=> Performed(FALSE).ret = Returned("int", 0)
            /\ Performed(FALSE).ret = Returned("int", 1) => ret = Returned("int", 1)

\* C19 as stated: in dry-run no call of a file operation modifies the file system, and
\* each call only logs a 'Would ...' message and returns 1 where it would have acted,
\* 0 where it would have been a no-op.
C19_DryRunOnlyDescribes ==
    DryRunCall => disk = call.before /\ DescribedOnly

\* a copy, move or symlink whose source's folder lies under its destination
SourceContained ==
    /\ op \in {"copy", "move", "symlink"}
    /\ call.source # <<>>
    /\ call.path # <<>>
    /\ call.source # call.path
    /\ os_path_dirname(call.source) # call.path
    /\ startswith(os_path_dirname(call.source), call.path)

\* the call refused as it is outside dry-run: -1, or the process exits
Refused ==
    /\ ret = Performed(FALSE).ret
    /\ ret = IF call.fatal = "True" THEN Raised("SystemExit", 1) ELSE Returned("int", -1)
    /\ \E i \in DOMAIN events : events[i].e = "abort"

\* C19, amended: in dry-run no call of a file operation modifies the file system; each
\* call only logs 'Would ...' and returns 1 where it would have acted (0, and no message,
\* where it would have been a no-op), except a copy, move or symlink whose source's
\* folder lies under its destination, which is refused as it is outside dry-run.
C19_DryRunLeavesFilesAlone ==
    DryRunCall =>
        /\ disk = call.before
        /\ IF SourceContained THEN Refused ELSE DescribedOnly

C19_Witness ==
    /\ op = "move"
    /\ call.flag
    /\ call.source = Pdf
    /\ call.path = Pe
    /\ os_path_exists(call.before, Pdf)
    /\ Performed(FALSE).ret = Returned("int", 1)
    /\ Performed(FALSE).disk # call.before
    /\ ret = Returned("int", 1)
    /\ disk = call.before

----------------------------------------------------------------------------
(* Claims about what the file operations return *)

ReturnsCode ==
    op \in {"delete", "copy", "move", "symlink", "ensure_folder", "write_contents", "touch"}

\* the folder ensure_folder is about
Folder == IF call.arg = "folder" THEN call.path ELSE os_path_dirname(call.path)

\* empty path, nothing to delete, folder already present, source equal to destination
NoOpCase ==
    IF op = "delete"
    THEN call.path = <<>>
           \/ (~os_path_exists(call.before, call.path) /\ ~os_path_islink(call.before, call.path))
    ELSE IF op = "ensure_folder"
    THEN call.path = <<>> \/ os_path_isdir(call.before, Folder)
    ELSE IF op \in {"write_contents", "touch"}
    THEN call.path = <<>>
    ELSE call.source = <<>> \/ call.path = <<>> \/ call.source = call.path

\* where a copy or a move may have put the source: the destination or, if that was still
\* a folder, inside it
Landed == {call.path, os_path_join(call.path, os_path_basename(call.source))} \cap DOMAIN disk

\* where the path q leads, the source itself being possibly on the way
Place(q) ==
    {resolve(disk, q, FALSE, MaxLinks), resolve(call.before, q, FALSE, MaxLinks)} \ {NoPath}

\* what the operation is for is the case in the file system the call left
EffectDone ==
    IF op = "delete"
    THEN ~os_path_exists(disk, call.path) /\ ~os_path_islink(disk, call.path)
    ELSE IF op = "ensure_folder"
    THEN os_path_isdir(disk, Folder)
    ELSE IF op \in {"write_contents", "touch"}
    THEN stat(disk, call.path).kind = "file" /\ stat(disk, call.path).data = call.arg
    ELSE IF op = "copy"
    THEN \E q \in Landed :
            /\ stat(disk, q).kind = stat(call.before, call.source).kind
            /\ stat(disk, q).data = stat(call.before, call.source).data
            /\ os_path_exists(disk, q)
    ELSE IF op = "move"
    THEN /\ lstat(disk, call.source).kind = "absent"
         /\ lstat(call.before, call.source).kind # "absent"
         /\ \E q \in Landed : \E t \in Place(q) : disk[t] = lstat(call.before, call.source)
    ELSE lstat(disk, call.path) = Link(call.source)

\* the source of a copy, move or symlink that has to exist does not (outside dry-run)
SourceMissing ==
    /\ op \in {"copy", "move", "symlink"}
    /\ ~call.flag
    /\ call.arg = "must_exist"
    /\ ~os_path_exists(call.before, call.source)

FailureReported == \E i \in DOMAIN events : events[i].e = "abort"

\* C20: delete, copy, move, symlink, ensure_folder and write_contents return 1 if the
\* operation was effectively done, 0 if it was a no-op (empty path, nothing to delete,
\* folder already present, source equal to destination) and -1 on failure; with
\* fatal=False a failure never raises or terminates the process.
C20_ReturnCodes ==
    ReturnsCode =>
        /\ ret.kind = "return" => ret.t = "int" /\ ret.n \in {1, 0, -1}
        /\ call.fatal = "False" => ret.kind = "return"
        /\ ret.kind = "raise" => ret = Raised("SystemExit", 1) /\ FailureReported
        /\ NoOpCase <=> ret = Returned("int", 0)
        /\ ret = Returned("int", 0) => disk = call.before /\ ~FailureReported
        /\ ret = Returned("int", 1) /\ ~call.flag => EffectDone
        /\ ret = Returned("int", -1) => FailureReported
        /\ ~NoOpCase /\ call.fatal = "False" /\ (SourceContained \/ SourceMissing)
             => ret = Returned("int", -1) /\ disk = call.before

C20_Witness ==
    /\ op = "copy"
    /\ ~call.flag
    /\ call.fatal = "False"
    /\ call.os = "func"
    /\ os_path_exists(call.before, call.source)
    /\ ret = Returned("int", -1)
    /\ FailureReported

----------------------------------------------------------------------------
(* SpecJson: calls of save_json and read_json on one file, a folder and no path *)

JsonPaths == {<<>>, Pd, Pe}

\* the defaults read_json is given: none, a dict or a list
JsonDefaults == {PyNone, PyDict(<<>>, <<>>), PyList(<<>>)}

SaveJsonData ==
    /\ Idle
    /\ \E path \in JsonPaths, data \in PyValues, fatal \in FatalArgs, os \in {"", "write"} :
         FileCall("save_json", <<>>, path, data, fatal, os,
                  save_json(disk, dryrun, data, path, fatal, FALSE, ShownState, os))

ReadJson ==
    /\ Idle
    /\ \E path \in JsonPaths, default \in JsonDefaults, fatal \in FatalArgs,
          os \in {"", "read"} :
         FileCall("read_json", <<>>, path, default, fatal, os,
                  read_json(disk, path, default, fatal, FALSE, ShownState, os))

InitJson ==
    /\ PATH = <<>>
    /\ cwd = Root
    /\ files = <<>>
    /\ dryrun \in BOOLEAN
    /\ InitCall
    /\ NoProcesses /\ NoContexts /\ NoTmp /\ NoStreams /\ NoAnchors /\ NoPending
    /\ disk \in {StartDisk(nd, Absent, Dir, Absent) :
                    nd \in {Absent, File("", FALSE), File("{", FALSE), File("[]", FALSE)}}

NextJson == SaveJsonData \/ ReadJson \/ Return

SpecJson == InitJson /\ [][NextJson]_vars

----------------------------------------------------------------------------
(* Claims about read_json and save_json *)

ReadCalled == op = "read_json" /\ call.fatal = "False"

\* an error message msg was logged or printed
ErrorShown(msg) ==
    \E i \in DOMAIN events : events[i].e \in {"print ERROR", "LOG.error"} /\ events[i].msg = msg

NothingShown == \A i \in DOMAIN events : events[i].e = "abort" \/ events[i].msg = "Read"

NoFile == call.path = <<>> \/ ~os_path_exists(call.before, call.path)

\* the file is there and io.open or json.load raises
Unreadable ==
    /\ ~NoFile
    /\ \/ call.os = "read"
       \/ stat(call.before, call.path).kind # "file"
       \/ ~json_valid(stat(call.before, call.path).data)

Parsed == json_load(stat(call.before, call.path).data)

\* C21: read_json with fatal=False never raises; for a missing file it returns the given
\* default without logging, or logs 'No file' and returns None when no default is given;
\* for a file that cannot be read or parsed it returns the default; for a file whose
\* top-level type differs from the type of the default it logs 'Wrong type' and returns
\* the default; otherwise it returns the parsed data.
C21_ReadJsonNeverRaises ==
    ReadCalled =>
        /\ ret.kind = "return"
        /\ disk = call.before
        /\ NoFile /\ call.arg # PyNone => ret = ReturnedValue(call.arg) /\ events = <<>>
        /\ NoFile /\ call.arg = PyNone => ret = ReturnedValue(PyNone) /\ ErrorShown("No file")
        /\ Unreadable => ret = ReturnedValue(call.arg)
        /\ ~NoFile /\ ~Unreadable /\ call.arg # PyNone /\ Parsed.t # call.arg.t
             => ret = ReturnedValue(call.arg) /\ ErrorShown("Wrong type")
        /\ ~NoFile /\ ~Unreadable /\ (call.arg = PyNone \/ Parsed.t = call.arg.t)
             => ret = ReturnedValue(Parsed) /\ NothingShown

C21_Witness ==
    /\ ReadCalled
    /\ call.path = Pd
    /\ call.arg = PyList(<<>>)
    /\ ~NoFile
    /\ ~Unreadable
    /\ Parsed.t = "dict"
    /\ ret = ReturnedValue(PyList(<<>>))
    /\ ErrorShown("Wrong type")

SaveCalled == op = "save_json"

\* what save_json serializes
Saved == IF hasattr_to_dict(call.arg) THEN to_dict(call.arg) ELSE call.arg

\* read_json(path), called now
ReadBack == read_json(disk, call.path, PyNone, "False", TRUE, ShownState, "").ret

SavesNothing ==
    call.arg = PyNone \/ call.path = <<>> => ret = Returned("int", 0) /\ disk = call.before

\* C22 as stated: outside dry-run, after save_json(data, path) returned 1, read_json(path)
\* returns a value equal to data (to data.to_dict() for an object that has to_dict);
\* save_json returns 0 and writes nothing when data is None or path is empty.
C22_RoundTrip ==
    SaveCalled =>
        /\ ~call.flag /\ ret = Returned("int", 1) => ReadBack = ReturnedValue(Saved)
        /\ SavesNothing

\* v is made of dicts with string keys, lists, strings, integers, booleans and None
RECURSIVE json_native(_)
json_native(v) ==
    IF v.t \in {"None", "bool", "int", "str"} THEN TRUE
    ELSE IF v.t = "list" THEN \A i \in DOMAIN v.l : json_native(v.l[i])
    ELSE IF v.t = "dict"
    THEN /\ \A i \in DOMAIN v.k : v.k[i].t = "str"
         /\ \A i \in DOMAIN v.l : json_native(v.l[i])
    ELSE FALSE

\* v with its tuples as lists and its keys as strings
RECURSIVE as_json(_)
as_json(v) ==
    IF v.t \in {"list", "tuple"} THEN PyList([i \in DOMAIN v.l |-> as_json(v.l[i])])
    ELSE IF v.t = "dict"
    THEN PyDict([i \in DOMAIN v.k |-> IF v.k[i].t = "str" THEN v.k[i]
                                      ELSE PyStr(json_scalar(v.k[i]))],
                [i \in DOMAIN v.l |-> as_json(v.l[i])])
    ELSE v

\* C22, amended: outside dry-run, after save_json(data, path) returned 1, read_json(path)
\* returns a value equal to data (to data.to_dict()) when that is made of dicts with string
\* keys, lists, strings, integers, booleans and None; of any other data it returns the
\* JSON form, tuples as lists and keys as strings.  save_json returns 0 and writes nothing
\* when data is None or path is empty.
C22_RoundTripOfJsonData ==
    SaveCalled =>
        /\ ~call.flag /\ ret = Returned("int", 1)
             => /\ ReadBack = ReturnedValue(as_json(Saved))
                /\ json_native(Saved) => ReadBack = ReturnedValue(Saved)
        /\ SavesNothing

C22_Witness ==
    /\ SaveCalled
    /\ ~call.flag
    /\ hasattr_to_dict(call.arg)
    /\ json_native(Saved)
    /\ call.path = Pd
    /\ ret = Returned("int", 1)
    /\ ReadBack = ReturnedValue(PyDict(<<PyStr("a")>>, <<PyStr("a")>>))

----------------------------------------------------------------------------
(* check_pid (not WINDOWS): os.kill(pid, 0) on the processes of the system *)

\* a process: whose it is, the caller's or somebody else's, and its process group
NoProcess == [owner |-> "none", pgid |-> 0]
Mine(pgid) == [owner |-> "mine", pgid |-> pgid]
Others(pgid) == [owner |-> "other", pgid |-> pgid]

\* the systems check_pid is called on: the caller is a process of its own
Systems ==
    {t \in [Pids -> {NoProcess} \cup {Mine(g) : g \in Pids} \cup {Others(g) : g \in Pids}] :
        t[os_getpid].owner = "mine"}

\* the processes kill(2) addresses with pid: one process, the caller's process group (0),
\* every process but init and the caller (-1), or the process group -pid
addressed(pid, t) ==
    IF pid > 0 THEN {q \in DOMAIN t : q = pid /\ t[q].owner # "none"}
    ELSE IF pid = 0 THEN {q \in DOMAIN t : t[q].owner # "none" /\ t[q].pgid = t[os_getpid].pgid}
    ELSE IF pid = -1 THEN {q \in DOMAIN t : t[q].owner # "none" /\ q # os_getpid}
    ELSE {q \in DOMAIN t : t[q].owner # "none" /\ t[q].pgid = -pid}

\* os.kill(pid, 0): "ok", or what it raises: TypeError for what is no integer, OSError
\* when no process is addressed (ESRCH) or none of them may be signalled (EPERM)
os_kill(pid, t) ==
    IF pid.t # "int" THEN "TypeError"
    ELSE IF \E q \in addressed(pid.n, t) : t[q].owner = "mine" THEN "ok"
    ELSE "OSError"

\* program.check_pid
check_pid(pid, t) == os_kill(pid, t) \notin {"OSError", "TypeError"}

\* runez.py: check_pid
runez_check_pid(pid, t) == os_kill(pid, t) \notin {"OSError", "TypeError"}

CheckPidArgs == {VNone, VStr(<<"f", "o", "o">>)} \cup {VInt(i) : i \in (-MaxPid)..MaxPid}

CheckPid ==
    /\ Idle
    /\ \E pid \in CheckPidArgs :
        /\ op' = "check_pid"
        /\ call' = [pid |-> pid]
        /\ ret' = check_pid(pid, ps.table)
        /\ events' = <<>>
        /\ UnchangedEnv

RunezCheckPid ==
    /\ Idle
    /\ \E pid \in CheckPidArgs :
        /\ op' = "runez.check_pid"
        /\ call' = [pid |-> pid]
        /\ ret' = runez_check_pid(pid, ps.table)
        /\ events' = <<>>
        /\ UnchangedEnv

InitPid ==
    /\ PATH = <<>>
    /\ cwd = Root
    /\ files = <<>>
    /\ dryrun = FALSE
    /\ InitCall
    /\ ps \in [table : Systems, client : {0}]
    /\ NoContexts /\ NoTmp /\ NoDisk /\ NoStreams /\ NoAnchors /\ NoPending

NextPid == CheckPid \/ RunezCheckPid \/ Return

SpecPid == InitPid /\ [][NextPid]_vars

CheckPidCalled == op \in {"check_pid", "runez.check_pid"}

\* a process with that pid exists and the caller may signal it
Signallable ==
    /\ call.pid.t = "int"
    /\ call.pid.n \in DOMAIN ps.table
    /\ ps.table[call.pid.n].owner = "mine"

\* C23: check_pid(pid) returns True only if a process with that pid exists and can be
\* signalled by the caller; it returns False for None, for 0, for a value that is no
\* integer such as 'foo' and for a pid the caller has no privilege to signal.
C23_TrueOnlyForSignallablePid ==
    CheckPidCalled =>
        /\ ret => Signallable
        /\ call.pid.t # "int" => ~ret
        /\ call.pid = VInt(0) => ~ret
        /\ call.pid.t = "int" /\ call.pid.n \in DOMAIN ps.table
             /\ ps.table[call.pid.n].owner = "other" => ~ret

----------------------------------------------------------------------------
(* Anchors: State.anchors and set_anchors / add_anchors / pop_anchors (Anchored.set / add /  *)
(* pop in context.py).  The list holds path strings.                                       *)

\* ord(c) of the characters that paths are made of
ord(c) ==
    IF c = "/" THEN 47
    ELSE IF c \in {ToString(i) : i \in 0..9} THEN 48 + (CHOOSE i \in 0..9 : ToString(i) = c)
    ELSE IF c = "<" THEN 60
    ELSE IF c = ">" THEN 62
    ELSE IF c = "b" THEN 98
    ELSE IF c = "c" THEN 99
    ELSE IF c = "m" THEN 109
    ELSE IF c = "p" THEN 112
    ELSE IF c = "t" THEN 116
    ELSE 97

RECURSIVE str_less(_, _)
\* a < b, as Python compares strings
str_less(a, b) ==
    IF b = <<>> THEN FALSE
    ELSE IF a = <<>> THEN TRUE
    ELSE IF Head(a) = Head(b) THEN str_less(Tail(a), Tail(b))
    ELSE ord(Head(a)) < ord(Head(b))

\* list.remove(x): the list without the first x
list_remove(l, x) ==
    LET i == CHOOSE j \in DOMAIN l : l[j] = x /\ \A h \in 1..(j - 1) : l[h] # x
    IN SubSeq(l, 1, i - 1) \o SubSeq(l, i + 1, Len(l))

RECURSIVE sorted_reverse(_)
\* sorted(l, reverse=True)
sorted_reverse(l) ==
    IF l = <<>> THEN <<>>
    ELSE LET top == CHOOSE x \in {l[i] : i \in DOMAIN l} :
                       \A i \in DOMAIN l : ~str_less(x, l[i])
         IN <<top>> \o sorted_reverse(list_remove(l, top))

\* the strings of a flattened list of values
strings(values) == [i \in DOMAIN values |-> values[i].s]

\* set_anchors: State.anchors = sorted(flattened(anchors, unique=True), reverse=True)
set_anchors(given) == sorted_reverse(strings(flattened(given, None, TRUE).r))

\* add_anchors: set_anchors(State.anchors + [anchors])
add_anchors(list, given) ==
    set_anchors(VList([i \in DOMAIN list |-> VStr(list[i])] \o <<given>>))

RECURSIVE pop_each(_, _)
pop_each(list, names) ==
    IF names = <<>> THEN list
    ELSE pop_each(IF in_list(Head(names), list) THEN list_remove(list, Head(names)) ELSE list,
                  Tail(names))

\* pop_anchors: every anchor of flattened(anchors) that is in the list is removed from it
pop_anchors(list, given) == pop_each(list, strings(flattened(given, None, TRUE).r))

----------------------------------------------------------------------------
(* CaptureOutput and the streams.  A stream's write function, sys.stdout, sys.stderr and   *)
(* logging.root.handlers are each named by where the text goes: <<>> is the real one,      *)
(* <<i>> the buffer (the handler) of the CaptureOutput object i.                           *)

MaxCapture == 2    \* at most this many CaptureOutput objects exist at a time

Real == <<>>

Targets == {"stdout", "stderr"}

\* CapturedStream.capture: self.original = self.target.write; self.target.write = self.buffer.write
CapturedStream_capture(sysv, target, id) == [sysv EXCEPT ![target] = <<id>>]

\* CapturedStream.restore: self.target.write = self.original
CapturedStream_restore(sysv, target, original) == [sysv EXCEPT ![target] = original]

\* CaptureOutput(streams=..., anchors=..., dryrun=...) of context.py, CaptureOutput(stdout=...,
\* stderr=..., anchors=..., dryrun=...) of runez.py, which keeps sys.stdout, sys.stderr and
\* logging.root.handlers as they are when the object is made
NewCaptureOutput(version, id, streams, anchors_arg, dryrun_arg, sysv) ==
    [class |-> "CaptureOutput", version |-> version, id |-> id, streams |-> streams,
     anchors |-> anchors_arg,
     dryrun |-> dryrun_arg,
     old |-> [stdout |-> sysv.stdout, stderr |-> sysv.stderr, handlers |-> sysv.handlers],
     captured |-> FALSE, content |-> {}]

RECURSIVE capture_all(_, _, _)
\* for stream in self.streams: CapturedStream(stream).capture()
capture_all(sysv, streams, id) ==
    IF streams = <<>> THEN sysv
    ELSE capture_all(CapturedStream_capture(sysv, Head(streams), id), Tail(streams), id)

RECURSIVE restore_all(_, _, _)
\* for c in self.captured: c.restore()
restore_all(sysv, streams, old) ==
    IF streams = <<>> THEN sysv
    ELSE restore_all(CapturedStream_restore(sysv, Head(streams), old[Head(streams)]),
                     Tail(streams), old)

\* CaptureOutput.__enter__ of the two versions; st is the state of the process.  context.py
\* keeps the write function of each stream as it is now, runez.py what __init__ kept
capture_enter(self, st) ==
    LET swapped == CaptureOutput_enter([dryrun |-> self.dryrun], st.dryrun)
        out == IF in_list("stdout", self.streams) THEN <<self.id>> ELSE st.sys.stdout
        err == IF in_list("stderr", self.streams) THEN <<self.id>> ELSE st.sys.stderr
        handlers == IF in_list("stderr", self.streams) THEN <<self.id>> ELSE st.sys.handlers
        now == [stdout |-> st.sys.stdout, stderr |-> st.sys.stderr,
                handlers |-> st.sys.handlers]
    IN [self |-> [self EXCEPT !.captured = TRUE, !.dryrun = swapped.self.dryrun,
                              !.old = IF self.version = "context.py" THEN now ELSE @],
        sys |-> IF self.version = "context.py" THEN capture_all(st.sys, self.streams, self.id)
                ELSE [st.sys EXCEPT !.stdout = out, !.stderr = err, !.handlers = handlers],
        anchors |-> IF ~falsy(self.anchors) THEN add_anchors(st.anchors, self.anchors)
                    ELSE st.anchors,
        dryrun |-> swapped.flag]

\* CaptureOutput.__exit__ of the two versions
capture_exit(self, st) ==
    [self |-> [self EXCEPT !.captured = FALSE, !.content = {}],
     sys |-> IF self.version = "context.py" THEN restore_all(st.sys, self.streams, self.old)
             ELSE [st.sys EXCEPT !.stdout = self.old.stdout, !.stderr = self.old.stderr,
                                 !.handlers = self.old.handlers],
     anchors |-> IF ~falsy(self.anchors) THEN pop_anchors(st.anchors, self.anchors)
                 ELSE st.anchors,
     dryrun |-> CaptureOutput_exit([dryrun |-> self.dryrun], st.dryrun)]

\* CaptureOutput.contents(), str(CaptureOutput): nothing once self.captured (the buffers) is None
contents(self) == IF self.captured THEN self.content ELSE {}

Process == [sys |-> sys, anchors |-> anchors, dryrun |-> dryrun]

StreamLists == {<<"stdout", "stderr">>, <<"stdout">>, <<"stderr">>}

Objects == {pending[i] : i \in DOMAIN pending} \cup {contexts[i].self : i \in DOMAIN contexts}

\* the buffers something still refers to
BuffersInUse ==
    LET captures == {o \in Objects : o.class = "CaptureOutput"}
    IN {o.id : o \in captures}
       \cup UNION {{b[i] : i \in DOMAIN b} :
                     b \in {sys.stdout, sys.stderr, sys.handlers}
                           \cup UNION {{o.old.stdout, o.old.stderr, o.old.handlers} :
                                         o \in captures}}

\* CaptureOutput(...) is called: the object exists, nothing is captured yet
CaptureMake ==
    /\ Idle
    /\ Len(contexts) + Len(pending) < MaxCapture
    /\ \E version \in {"context.py", "runez.py"}, streams \in StreamLists,
          dryrun_arg \in {"None"} :
        LET id == CHOOSE i \in 1..(Cardinality(BuffersInUse) + 1) : i \notin BuffersInUse
        IN /\ \A o \in Objects : o.version = version
           /\ pending' = Append(pending, NewCaptureOutput(version, id, streams, VNone,
                                                          dryrun_arg, sys))
           /\ op' = "capture.make"
           /\ call' = [streams |-> streams]
    /\ ret' = <<>>
    /\ events' = <<>>
    /\ UNCHANGED <<PATH, cwd, files, dryrun, ps, contexts, tmp, disk, sys, anchors>>

\* "with logged:" is reached, for an object that was made ("with CaptureOutput(...) as
\* logged:" makes it and enters it at once)
CaptureEnter ==
    /\ Idle
    /\ \E i \in DOMAIN pending :
        LET entered == capture_enter(pending[i], Process)
        IN /\ sys' = entered.sys
           /\ anchors' = entered.anchors
           /\ dryrun' = entered.dryrun
           /\ contexts' = Append(contexts, [self |-> entered.self, before |-> Process])
           /\ pending' = SubSeq(pending, 1, i - 1) \o SubSeq(pending, i + 1, Len(pending))
           /\ op' = "capture.enter"
           /\ call' = [streams |-> pending[i].streams, before |-> Process]
    /\ ret' = <<>>
    /\ events' = <<>>
    /\ UNCHANGED <<PATH, cwd, files, ps, tmp, disk>>

\* a buffer whose CaptureOutput object is gone: what is written there is lost, and one such
\* buffer is not told from another
Gone == <<0>>

forget(target, alive) == IF target = Real \/ target[1] \in alive THEN target ELSE Gone

forget_all(targets, alive) ==
    [targets EXCEPT !.stdout = forget(@, alive), !.stderr = forget(@, alive),
                    !.handlers = forget(@, alive)]

\* the body of the innermost "with" is left, at its end or by an exception: __exit__ runs;
\* the object is dropped with its buffers
CaptureExit ==
    /\ Idle
    /\ contexts # <<>>
    /\ \E how \in {"normal", "exception"} :
        LET top == contexts[Len(contexts)]
            left == capture_exit(top.self, Process)
            rest == SubSeq(contexts, 1, Len(contexts) - 1)
            alive == {pending[i].id : i \in DOMAIN pending}
                     \cup {rest[i].self.id : i \in DOMAIN rest}
        IN /\ sys' = forget_all(left.sys, alive)
           /\ anchors' = left.anchors
           /\ dryrun' = left.dryrun
           /\ contexts' = [i \in DOMAIN rest |->
                             [rest[i] EXCEPT !.self.old = forget_all(@, alive),
                                             !.before.sys = forget_all(@, alive)]]
           /\ pending' = [i \in DOMAIN pending |->
                            [pending[i] EXCEPT !.old = forget_all(@, alive)]]
           /\ op' = "capture.exit"
           /\ call' = [version |-> top.self.version, streams |-> top.self.streams,
                       before |-> top.before, how |-> how,
                       inside |-> Process, after |-> left.sys,
                       held |-> contents(top.self)]
           /\ ret' = contents(left.self)
    /\ events' = <<>>
    /\ UNCHANGED <<PATH, cwd, files, ps, tmp, disk>>

\* text is written to sys.stdout or sys.stderr: it goes where the write function puts it
WriteText ==
    /\ Idle
    /\ \E stream \in Targets :
        LET sink == sys[stream]
        IN /\ sys' = IF sink = Real THEN [sys EXCEPT !.real = @ \cup {stream}] ELSE sys
           /\ contexts' = [i \in DOMAIN contexts |->
                             IF sink = <<contexts[i].self.id>>
                             THEN [contexts[i] EXCEPT !.self.content = @ \cup {stream}]
                             ELSE contexts[i]]
           /\ op' = "write"
           /\ call' = [stream |-> stream, real |-> sys.real]
    /\ ret' = <<>>
    /\ events' = <<>>
    /\ UNCHANGED <<PATH, cwd, files, dryrun, ps, tmp, disk, anchors, pending>>

InitOutput ==
    /\ PATH = <<>>
    /\ cwd = Root
    /\ files = <<>>
    /\ dryrun = FALSE
    /\ InitCall
    /\ NoProcesses /\ NoContexts /\ NoTmp /\ NoDisk /\ NoAnchors /\ NoPending
    /\ sys = [stdout |-> Real, stderr |-> Real, handlers |-> Real, real |-> {}]

NextOutput == CaptureMake \/ CaptureEnter \/ CaptureExit \/ WriteText \/ Return

SpecOutput == InitOutput /\ [][NextOutput]_vars

\* the innermost open context that captures the stream, if there is one
Capturing(stream) ==
    {i \in DOMAIN contexts :
        /\ in_list(stream, contexts[i].self.streams)
        /\ \A j \in (i + 1)..Len(contexts) : ~in_list(stream, contexts[j].self.streams)}

\* C24: after each exit of a CaptureOutput context, normal or by exception, the write
\* function of every captured stream, sys.stdout, sys.stderr and the root logging handlers
\* are what they were right before the matching enter, and the captured content is not
\* available any more; text written inside a context is in the captured content of that
\* context and not on the real stream.
C24_CapturedOnlyInsideContext ==
    /\ op = "capture.exit" =>
          /\ call.after.stdout = call.before.sys.stdout
          /\ call.after.stderr = call.before.sys.stderr
          /\ call.after.handlers = call.before.sys.handlers
          /\ ret = {}
    /\ op = "write" =>
          \A i \in Capturing(call.stream) :
              /\ call.stream \in contents(contexts[i].self)
              /\ sys.real = call.real
    /\ op = "write" /\ Capturing(call.stream) = {} => call.stream \in sys.real

----------------------------------------------------------------------------
(* program.py: find_parent_folder *)

MaxChars == 4    \* the paths given to find_parent_folder have at most this many characters

\* sys.getrecursionlimit(), in calls of find_parent_folder: more than any path needs whose
\* every call hands a shorter path on
RecursionLimit == MaxChars + 2

PathChars == {SLASH, "b", "B"}

\* str.lower()
lower(str_) == [i \in DOMAIN str_ |-> IF str_[i] = "B" THEN "b" ELSE str_[i]]

\* str.rfind("/") + 1
rfind_slash(p) ==
    IF \E i \in DOMAIN p : p[i] = SLASH
    THEN CHOOSE i \in DOMAIN p : p[i] = SLASH /\ \A j \in (i + 1)..Len(p) : p[j] # SLASH
    ELSE 0

RECURSIVE rstrip_slash(_)
\* str.rstrip("/")
rstrip_slash(p) ==
    IF p # <<>> /\ p[Len(p)] = SLASH THEN rstrip_slash(SubSeq(p, 1, Len(p) - 1)) ELSE p

\* os.path.split (posixpath): head and tail around the last "/"; the slashes that end head
\* are stripped unless head is made of slashes only
os_path_split(p) ==
    LET i == rfind_slash(p)
        head == SubSeq(p, 1, i)
    IN [head |-> IF head # <<>> /\ (\E j \in DOMAIN head : head[j] # SLASH)
                 THEN rstrip_slash(head) ELSE head,
        tail |-> SubSeq(p, i + 1, Len(p))]

FoundFolder(p) == [kind |-> "return", t |-> "str", path |-> p]
NoFolder == [kind |-> "return", t |-> "None", path |-> <<>>]
RecursionError == [kind |-> "raise", t |-> "RecursionError", path |-> <<>>]

RECURSIVE find_parent_folder(_, _, _)
\* find_parent_folder(path, basenames), with room for depth more calls on the stack
find_parent_folder(path, basenames, depth) ==
    IF depth = 0 THEN RecursionError
    ELSE IF path = <<>> \/ Len(path) <= 1 THEN NoFolder
    ELSE IF os_path_split(path).tail # <<>> /\ lower(os_path_split(path).tail) \in basenames
         THEN FoundFolder(path)
    ELSE find_parent_folder(os_path_split(path).head, basenames, depth - 1)

ParentPaths == UNION {[1..n -> PathChars] : n \in 0..MaxChars}

Basenames == {{<<"b">>}, {<<"b", "b">>}, {<<"b">>, <<"b", "b">>}}

FindParentFolder ==
    /\ Idle
    /\ \E path \in ParentPaths, basenames \in Basenames :
        /\ op' = "find_parent_folder"
        /\ call' = [path |-> path, basenames |-> basenames]
        /\ ret' = find_parent_folder(path, basenames, RecursionLimit)
    /\ events' = <<>>
    /\ UnchangedEnv

InitParent ==
    /\ PATH = <<>>
    /\ cwd = Root
    /\ files = <<>>
    /\ dryrun = FALSE
    /\ InitCall
    /\ InitOthers

NextParent == FindParentFolder \/ Return

SpecParent == InitParent /\ [][NextParent]_vars

\* path itself and the folders above it, as the names of the path give them: the part of
\* the path before a "/", without the slashes that end it
AncestorsOrSelf(path) ==
    {q \in {SubSeq(path, 1, k) : k \in 1..Len(path)} :
        /\ q[Len(q)] # SLASH
        /\ Len(q) = Len(path) \/ path[Len(q) + 1] = SLASH}

NameMatches(q, basenames) == lower(os_path_split(q).tail) \in basenames

\* C28: find_parent_folder(path, basenames) ends for every path string and returns the
\* longest of path and the folders above it whose lower-cased basename is in basenames, or
\* None when there is none
C28_FindParentFolderTerminates ==
    op = "find_parent_folder" =>
        LET matching == {q \in AncestorsOrSelf(call.path) : NameMatches(q, call.basenames)}
        IN /\ ret.kind = "return"
           /\ matching = {} => ret = NoFolder
           /\ matching # {} =>
                 /\ ret.t = "str"
                 /\ ret.path \in matching
                 /\ \A q \in matching : Len(q) <= Len(ret.path)

----------------------------------------------------------------------------
(* The folder contexts: Anchored, CurrentFolder and TempFolder, with CaptureOutput around    *)
(* them.  An object is made first and entered later; "with X(...):" does both at once.     *)

MaxObjects == 2    \* at most this many context objects exist at a time

SYMBOLIC_TMP == <<"<", "t", "m", "p", ">">>

TmpNames == {TmpName(i) : i \in 1..MaxTmp}

FolderPaths == {Root, DirB} \cup TmpNames

\* the process as the contexts see it
World == [cwd |-> cwd, disk |-> disk, anchors |-> anchors, dryrun |-> dryrun, sys |-> sys]

Entered(self, st) == [self |-> self, st |-> st, raised |-> FALSE]
EnterRaised(self, st) == [self |-> self, st |-> st, raised |-> TRUE]

\* os.chdir(p) works for a folder that exists
os_chdir(d, p) == os_path_isdir(d, p)

\* Anchored(folder): self.folder = resolved_path(folder), of an absolute path
NewAnchored(folder) ==
    [class |-> "Anchored", version |-> "context.py", folder |-> folder, anchor |-> TRUE,
     dryrun |-> FALSE, old_cwd |-> <<>>]

\* CurrentFolder(destination, anchor=...), the same in both versions
NewCurrentFolder(version, destination, anchor) ==
    [class |-> "CurrentFolder", version |-> version, folder |-> destination,
     anchor |-> anchor, dryrun |-> FALSE, old_cwd |-> <<>>]

\* TempFolder(anchor=..., dryrun=..., follow=...) of context.py keeps the dry-run it is
\* given, or else the flag, and os.getcwd() if follow; TempFolder(anchor=...) of runez.py
\* keeps the flag
NewTempFolder(version, anchor, dryrun_arg, follow, st) ==
    [class |-> "TempFolder", version |-> version, folder |-> <<>>, anchor |-> anchor,
     dryrun |-> IF version = "context.py" /\ dryrun_arg # "None" THEN bool(dryrun_arg)
                ELSE st.dryrun,
     old_cwd |-> IF version = "context.py" /\ follow THEN <<st.cwd>> ELSE <<>>]

\* Anchored.__enter__
Anchored_enter(self, st) ==
    Entered(self, [st EXCEPT !.anchors = add_anchors(@, VStr(self.folder))])

\* Anchored.__exit__
Anchored_exit(self, st) ==
    Entered(self, [st EXCEPT !.anchors = pop_anchors(@, VStr(self.folder))])

\* CurrentFolder.__enter__: self.current_folder (old_cwd here) = os.getcwd(); os.chdir
CurrentFolder_enter(self, st) ==
    IF ~os_chdir(st.disk, self.folder) THEN EnterRaised(self, st)
    ELSE Entered([self EXCEPT !.old_cwd = <<st.cwd>>],
                 [st EXCEPT !.cwd = self.folder,
                            !.anchors = IF self.anchor THEN add_anchors(@, VStr(self.folder))
                                        ELSE @])

\* a CurrentFolder.__exit__ that stays where it is
CurrentFolder_exit_mutant_stays(self, st) ==
    Entered(self, [st EXCEPT !.anchors = IF self.anchor THEN pop_anchors(@, VStr(self.folder))
                                         ELSE @])
\* CurrentFolder.__exit__: os.chdir(self.current_folder), then the anchor
CurrentFolder_exit(self, st) ==
    IF ~os_chdir(st.disk, self.old_cwd[1]) THEN EnterRaised(self, st)
    ELSE Entered(self, [st EXCEPT !.cwd = self.old_cwd[1],
                                  !.anchors = IF self.anchor
                                              THEN pop_anchors(@, VStr(self.folder)) ELSE @])

\* TempFolder.__enter__; name is the folder tempfile.mkdtemp() makes
TempFolder_enter(self, st, name) ==
    LET folder == IF self.dryrun THEN SYMBOLIC_TMP ELSE name
        made_ == IF self.dryrun THEN st.disk ELSE os_mkdir(st.disk, name, TRUE).disk
    IN Entered([self EXCEPT !.folder = folder],
               [st EXCEPT !.disk = made_,
                          !.cwd = IF ~self.dryrun /\ self.old_cwd # <<>> THEN name ELSE @,
                          !.anchors = IF self.anchor THEN add_anchors(@, VStr(folder)) ELSE @])

\* TempFolder.__exit__ of context.py: the anchor, then os.chdir(self.old_cwd), then
\* shutil.rmtree(self.tmp_folder); of runez.py: the anchor, then delete(self.tmp_folder),
\* which looks at the dry-run flag itself
TempFolder_exit(self, st) ==
    LET popped == [st EXCEPT !.anchors = IF self.anchor THEN pop_anchors(@, VStr(self.folder))
                                         ELSE @]
        back == IF self.old_cwd # <<>> THEN [popped EXCEPT !.cwd = self.old_cwd[1]] ELSE popped
        removed == shutil_rmtree(back.disk, self.folder, TRUE)
        deleted == delete(popped.disk, popped.dryrun, self.folder, "True", FALSE, DefaultState, "")
    IN IF self.dryrun THEN Entered(self, popped)
       ELSE IF self.version = "context.py"
            THEN IF self.old_cwd # <<>> /\ ~os_chdir(popped.disk, self.old_cwd[1])
                 THEN EnterRaised(self, popped)
                 ELSE IF removed.ok THEN Entered(self, [back EXCEPT !.disk = removed.disk])
                 ELSE EnterRaised(self, back)
       ELSE IF deleted.ret.kind = "raise" THEN EnterRaised(self, [popped EXCEPT !.disk = deleted.disk])
       ELSE Entered(self, [popped EXCEPT !.disk = deleted.disk])

\* __enter__ of an object of any of the classes
context_enter(self, st, name) ==
    LET captured == capture_enter(self, st)
    IN IF self.class = "Anchored" THEN Anchored_enter(self, st)
       ELSE IF self.class = "CurrentFolder" THEN CurrentFolder_enter(self, st)
       ELSE IF self.class = "TempFolder" THEN TempFolder_enter(self, st, name)
       ELSE Entered(captured.self, [st EXCEPT !.sys = captured.sys, !.anchors = captured.anchors,
                                              !.dryrun = captured.dryrun])

\* __exit__ of an object of any of the classes
context_exit(self, st) ==
    LET left == capture_exit(self, st)
    IN IF self.class = "Anchored" THEN Anchored_exit(self, st)
       ELSE IF self.class = "CurrentFolder" THEN CurrentFolder_exit(self, st)
       ELSE IF self.class = "TempFolder" THEN TempFolder_exit(self, st)
       ELSE Entered(left.self, [st EXCEPT !.sys = left.sys, !.anchors = left.anchors,
                                          !.dryrun = left.dryrun])

Versions == {"context.py", "runez.py"}

\* what a context is compared with when it is left
Before == [cwd |-> cwd, anchors |-> anchors]

\* an object is made: X(...) is called
Make(object) ==
    /\ Len(contexts) + Len(pending) < MaxObjects
    /\ \A o \in Objects : o.version = object.version
    /\ pending' = Append(pending, object)
    /\ op' = "make"
    /\ call' = [class |-> object.class]
    /\ ret' = <<>>
    /\ events' = <<>>
    /\ UNCHANGED <<PATH, cwd, files, dryrun, ps, contexts, tmp, disk, sys, anchors>>

\* CurrentFolder(destination)
MakeCurrentFolder ==
    /\ Idle
    /\ \E version \in Versions : Make(NewCurrentFolder(version, DirB, FALSE))

\* TempFolder(), TempFolder(dryrun=True), TempFolder(follow=False)
MakeTempFolder ==
    /\ Idle
    /\ \/ \E dryrun_arg \in {"None", "True"}, follow \in BOOLEAN :
             Make(NewTempFolder("context.py", TRUE, dryrun_arg, follow, World))
       \/ Make(NewTempFolder("runez.py", TRUE, "None", FALSE, World))

\* CaptureOutput(streams=[], dryrun=True), CaptureOutput(stdout=False, stderr=False, dryrun=True)
MakeCaptureOutput ==
    /\ Idle
    /\ \E version \in Versions :
        LET id == CHOOSE i \in 1..(Cardinality(BuffersInUse) + 1) : i \notin BuffersInUse
        IN Make(NewCaptureOutput(version, id, <<>>, VNone, "True", sys))

\* the names tempfile.mkdtemp() can give: its names are random, so it gives none that is
\* in use or that the process still remembers
FreshNames ==
    {name \in TmpNames :
        /\ disk[name] = Absent
        /\ name # cwd
        /\ ~in_list(name, anchors)
        /\ \A o \in Objects : o.class = "CaptureOutput" \/ (o.folder # name /\ o.old_cwd # <<name>>)}

\* "with x:" is reached for an object that was made; an __enter__ that raises opens nothing
EnterContext ==
    /\ Idle
    /\ \E i \in DOMAIN pending, name \in TmpNames :
        LET entered == context_enter(pending[i], World, name)
        IN /\ IF pending[i].class = "TempFolder" /\ ~pending[i].dryrun
              THEN name \in FreshNames
              ELSE name = TmpName(1)
           /\ cwd' = entered.st.cwd
           /\ disk' = entered.st.disk
           /\ anchors' = entered.st.anchors
           /\ dryrun' = entered.st.dryrun
           /\ sys' = entered.st.sys
           /\ contexts' = IF entered.raised THEN contexts
                          ELSE Append(contexts, [self |-> entered.self, before |-> Before])
           /\ pending' = SubSeq(pending, 1, i - 1) \o SubSeq(pending, i + 1, Len(pending))
           /\ op' = "enter"
           /\ call' = [class |-> pending[i].class, self |-> entered.self, before |-> Before,
                       inside |-> World, raised |-> entered.raised]
           /\ ret' = IF pending[i].class = "TempFolder" THEN entered.self.folder ELSE <<>>
    /\ events' = <<>>
    /\ UNCHANGED <<PATH, files, ps, tmp>>

\* the body of the innermost "with" is left, at its end or by an exception: __exit__ runs
ExitContext ==
    /\ Idle
    /\ contexts # <<>>
    /\ \E how \in {"normal", "exception"} :
        LET top == contexts[Len(contexts)]
            left == context_exit(top.self, World)
        IN /\ cwd' = left.st.cwd
           /\ disk' = left.st.disk
           /\ anchors' = left.st.anchors
           /\ dryrun' = left.st.dryrun
           /\ sys' = left.st.sys
           /\ contexts' = SubSeq(contexts, 1, Len(contexts) - 1)
           /\ op' = "exit"
           /\ call' = [class |-> top.self.class, self |-> top.self, before |-> top.before,
                       inside |-> World, how |-> how, raised |-> left.raised]
           /\ ret' = <<>>
    /\ events' = <<>>
    /\ UNCHANGED <<PATH, files, ps, tmp, pending>>

InitFolders ==
    /\ PATH = <<>>
    /\ cwd = Root
    /\ files = <<>>
    /\ dryrun \in BOOLEAN
    /\ InitCall
    /\ NoProcesses /\ NoContexts /\ NoTmp /\ NoAnchors /\ NoPending
    /\ disk = [p \in FolderPaths |-> IF p \in {Root, DirB} THEN Dir ELSE Absent]
    /\ sys = [stdout |-> Real, stderr |-> Real, handlers |-> Real, real |-> {}]

NextFolders ==
    \/ MakeCurrentFolder
    \/ MakeTempFolder
    \/ MakeCaptureOutput
    \/ EnterContext
    \/ ExitContext
    \/ Return

SpecFolders == InitFolders /\ [][NextFolders]_vars

IsTempFolder == op \in {"enter", "exit"} /\ call.class = "TempFolder"

\* C26: outside dry-run the enter of a TempFolder makes a folder that did not exist and its
\* exit, normal or by exception, removes it, so that no such folder is left when every
\* context is closed; in dry-run the enter yields "<tmp>" and neither enter nor exit
\* changes anything on disk
C26_TempFolderOwnsItsFolder ==
    /\ (IsTempFolder /\ op = "enter" /\ ~call.self.dryrun) =>
          /\ ret \in TmpNames
          /\ call.inside.disk[ret] = Absent
          /\ disk[ret] = Dir
    /\ (IsTempFolder /\ op = "exit" /\ ~call.self.dryrun) => disk[call.self.folder] = Absent
    /\ (contexts = <<>>) => \A name \in TmpNames : disk[name] = Absent
    /\ (IsTempFolder /\ call.self.dryrun) =>
          /\ disk = call.inside.disk
          /\ op = "enter" => ret = SYMBOLIC_TMP

MadeInStands == os_path_isdir(call.inside.disk, call.self.old_cwd[1])

----------------------------------------------------------------------------
(* SpecAnchors: the contexts that add an anchor *)

\* Anchored(folder)
MakeAnchored ==
    /\ Idle
    /\ \E folder \in {DirB, DirC} : Make(NewAnchored(folder))

\* CurrentFolder(destination, anchor=True)
MakeAnchoredCurrentFolder ==
    /\ Idle
    /\ \E version \in Versions : Make(NewCurrentFolder(version, DirB, TRUE))

\* TempFolder(follow=False) and TempFolder() of runez.py, which anchor their folder
MakeAnchoredTempFolder ==
    /\ Idle
    /\ \E version \in Versions : Make(NewTempFolder(version, TRUE, "None", FALSE, World))

\* CaptureOutput(streams=[], anchors=...), CaptureOutput(stdout=False, stderr=False, anchors=...)
MakeAnchoringCaptureOutput ==
    /\ Idle
    /\ \E version \in Versions,
          anchors_arg \in {VStr(DirB), VList(<<VStr(DirC), VStr(DirB)>>)} :
        LET id == CHOOSE i \in 1..(Cardinality(BuffersInUse) + 1) : i \notin BuffersInUse
        IN Make(NewCaptureOutput(version, id, <<>>, anchors_arg, "None", sys))

NextAnchors ==
    \/ MakeAnchored
    \/ MakeAnchoredCurrentFolder
    \/ MakeAnchoredTempFolder
    \/ MakeAnchoringCaptureOutput
    \/ EnterContext
    \/ ExitContext
    \/ Return

SpecAnchors == InitFolders /\ [][NextAnchors]_vars

\* the anchors an open context has added
AnchorsOf(self) ==
    IF self.class = "CaptureOutput" THEN strings(flattened(self.anchors, None, TRUE).r)
    ELSE IF self.anchor THEN <<self.folder>>
    ELSE <<>>

\* C29: after the exit of a context that adds anchors the anchor list is what it was right
\* before the matching enter, also when the anchor was in the list already; the anchors of
\* every context that is still open are in the list; the list is sorted in descending order
\* and has no duplicates
C29_AnchorsFollowTheContexts ==
    /\ (op = "exit" /\ ~call.raised) => anchors = call.before.anchors
    /\ \A i \in DOMAIN contexts :
          \A j \in DOMAIN AnchorsOf(contexts[i].self) :
              in_list(AnchorsOf(contexts[i].self)[j], anchors)
    /\ \A i \in DOMAIN anchors : \A j \in DOMAIN anchors :
          i < j => str_less(anchors[j], anchors[i])

====
